---- MODULE Spec2Model ----
(***************************************************************************)
(* A model of the comment filtering pipeline of ytc-analyzer               *)
(* (Scripts/analyze_video.py: filter_low_value, _near_dedup_remove_all).   *)
(*                                                                         *)
(* A text is a sequence of code points, each a one-character string; an    *)
(* emoji code point, which the module's character set cannot spell, is the *)
(* token "U+1F600".  A comment is a record [id, text, like_count]; a data   *)
(* frame is a sequence of comments, in row order.                          *)
(***************************************************************************)
EXTENDS Naturals, Integers, Sequences, FiniteSets, TLC

(***************************************************************************)
(* Characters and the string primitives the stages use.                    *)
(***************************************************************************)
LowerSeq ==
    << "a", "b", "c", "d", "e", "f", "g", "h", "i", "j", "k", "l", "m",
       "n", "o", "p", "q", "r", "s", "t", "u", "v", "w", "x", "y", "z" >>

UpperSeq ==
    << "A", "B", "C", "D", "E", "F", "G", "H", "I", "J", "K", "L", "M",
       "N", "O", "P", "Q", "R", "S", "T", "U", "V", "W", "X", "Y", "Z" >>

LowerCase == { LowerSeq[i] : i \in 1..26 }

UpperCase == { UpperSeq[i] : i \in 1..26 }

\* [a-zA-Z] of the min_alpha count
AsciiLetters == LowerCase \cup UpperCase

\* \d of _TIMESTAMP_RE
Digits == { "0", "1", "2", "3", "4", "5", "6", "7", "8", "9" }

\* what str.strip() removes and str.split() splits on, and the complement of \S
Whitespace == { " ", "\t", "\n" }

\* the code points _strip_emoji removes
EmojiChars == { "U+1F600" }

\* a missing text (None / NaN in the text column)
NullText == << "<NA>" >>

\* str.lower() on one code point
LowerChar(c) ==
    IF c \in UpperCase
    THEN LowerSeq[CHOOSE i \in 1..26 : UpperSeq[i] = c]
    ELSE c

\* str.lower()
PyLower(t) == [i \in 1..Len(t) |-> LowerChar(t[i])]

RECURSIVE LStrip(_)
LStrip(t) ==
    IF t # <<>> /\ Head(t) \in Whitespace THEN LStrip(Tail(t)) ELSE t

RECURSIVE RStrip(_)
RStrip(t) ==
    IF t # <<>> /\ t[Len(t)] \in Whitespace
    THEN RStrip(SubSeq(t, 1, Len(t) - 1))
    ELSE t

\* str.strip()
PyStrip(t) == RStrip(LStrip(t))

\* fillna("")
FillNa(t) == IF t = NullText THEN <<>> ELSE t

\* the normalisation used for comparisons: .str.lower().str.strip()
NormText(t) == PyStrip(PyLower(t))

\* .str.count(r"[a-zA-Z]")
CountAlpha(t) == Cardinality({ i \in 1..Len(t) : t[i] \in AsciiLetters })

\* .str.split().str.len(): the number of maximal runs of non-whitespace
WordCount(t) ==
    Cardinality({ i \in 1..Len(t) :
                    /\ t[i] \notin Whitespace
                    /\ (i = 1 \/ t[i - 1] \in Whitespace) })

\* _strip_emoji
StripEmoji(t) == SelectSeq(t, LAMBDA c : c \notin EmojiChars)

\* whether t, from position i on, spells the word w, ignoring case
StartsWithAt(t, i, w) ==
    /\ i + Len(w) - 1 <= Len(t)
    /\ \A k \in 1..Len(w) : LowerChar(t[i + k - 1]) = w[k]

\* the end of the run of \S that starts at position i (i - 1 when t[i] is a space)
RECURSIVE NonSpaceRunEnd(_, _)
NonSpaceRunEnd(t, i) ==
    IF i <= Len(t) /\ t[i] \notin Whitespace
    THEN NonSpaceRunEnd(t, i + 1)
    ELSE i - 1

\* where a match of https?://\S+|www\.\S+ that starts at i ends; 0: no match at i
UrlMatchEnd(t, i) ==
    LET after ==
            IF StartsWithAt(t, i, << "h", "t", "t", "p", "s", ":", "/", "/" >>)
               /\ NonSpaceRunEnd(t, i + 8) >= i + 8
            THEN i + 8
            ELSE IF StartsWithAt(t, i, << "h", "t", "t", "p", ":", "/", "/" >>)
                    /\ NonSpaceRunEnd(t, i + 7) >= i + 7
            THEN i + 7
            ELSE IF StartsWithAt(t, i, << "w", "w", "w", "." >>)
                    /\ NonSpaceRunEnd(t, i + 4) >= i + 4
            THEN i + 4
            ELSE 0
    IN  IF after = 0 THEN 0 ELSE NonSpaceRunEnd(t, after)

\* _URL_RE.sub("", t): the leftmost matches, one after the other, removed
RECURSIVE UrlSubFrom(_, _)
UrlSubFrom(t, i) ==
    IF i > Len(t) THEN <<>>
    ELSE IF UrlMatchEnd(t, i) > 0 THEN UrlSubFrom(t, UrlMatchEnd(t, i) + 1)
    ELSE << t[i] >> \o UrlSubFrom(t, i + 1)

UrlSub(t) == UrlSubFrom(t, 1)

AllDigits(t) == Len(t) >= 1 /\ \A i \in 1..Len(t) : t[i] \in Digits

\* \d{1,2}:\d{2}
MinSec(t) ==
    /\ Len(t) \in {4, 5}
    /\ t[Len(t) - 2] = ":"
    /\ AllDigits(SubSeq(t, 1, Len(t) - 3))
    /\ AllDigits(SubSeq(t, Len(t) - 1, Len(t)))

\* a faulty variant of the timestamp test: search instead of fullmatch, so
\* that a timestamp anywhere in the text counts
TimestampSearch(t) ==
    \E i \in 1..Len(t) : \E j \in i..Len(t) : MinSec(SubSeq(t, i, j))

\* _TIMESTAMP_RE.fullmatch(t): ^(\d+:)?\d{1,2}:\d{2}$
TimestampFullMatch(t) ==
    \/ MinSec(t)
    \/ \E k \in 2..Len(t) :
          /\ t[k] = ":"
          /\ AllDigits(SubSeq(t, 1, k - 1))
          /\ MinSec(SubSeq(t, k + 1, Len(t)))

\* a faulty variant of the search: a run of any character counts
RepeatCharAnyChar(t) ==
    \E i \in 1..Len(t) :
        /\ i + 4 <= Len(t)
        /\ \A k \in 1..4 : t[i + k] = t[i]

\* _REPEAT_CHAR_RE.search(t): ([a-zA-Z0-9])\1{4,}
RepeatCharSearch(t) ==
    \E i \in 1..Len(t) :
        /\ i + 4 <= Len(t)
        /\ t[i] \in AsciiLetters \cup Digits
        /\ \A k \in 1..4 : t[i + k] = t[i]

(***************************************************************************)
(* rapidfuzz's fuzz.ratio: the normalised Indel similarity,                *)
(* 100 * 2 * LCS(a, b) / (|a| + |b|), and 100 for two empty texts.  It is   *)
(* compared with an integer threshold, so the comparison is kept exact.    *)
(***************************************************************************)
Max(a, b) == IF a >= b THEN a ELSE b

\* one row of the longest-common-subsequence table: row[j + 1] is the LCS of
\* the prefix of a that ends in c with the first j characters of b
\* (the tests cell >= 0 and Len(row) > 0 always hold: they make TLC compute a
\* cell, and a row, before it goes on to the next)
RECURSIVE LcsRow(_, _, _, _)
LcsRow(prev, c, b, row) ==
    LET j == Len(row)
        cell == IF c = b[j] THEN prev[j] + 1 ELSE Max(prev[j + 1], row[j])
    IN  IF j > Len(b) THEN row
        ELSE IF cell >= 0 THEN LcsRow(prev, c, b, Append(row, cell))
        ELSE row

RECURSIVE LcsRows(_, _, _, _)
LcsRows(a, b, i, prev) ==
    LET row == LcsRow(prev, a[i], b, << 0 >>)
    IN  IF i > Len(a) THEN prev[Len(b) + 1]
        ELSE IF Len(row) > 0 THEN LcsRows(a, b, i + 1, row)
        ELSE 0

LcsLen(a, b) == LcsRows(a, b, 1, [j \in 1..(Len(b) + 1) |-> 0])

\* _fuzz.ratio(a, b) >= threshold
FuzzRatioAtLeast(a, b, threshold) ==
    IF Len(a) + Len(b) = 0
    THEN 100 >= threshold
    ELSE 200 * LcsLen(a, b) >= threshold * (Len(a) + Len(b))

(***************************************************************************)
(* _near_dedup_remove_all: union-find over row positions (1-based here).   *)
(***************************************************************************)
\* _find: path halving; returns the root and the parent list it leaves
RECURSIVE Find(_, _)
Find(parent, x) ==
    IF parent[x] = x
    THEN [root |-> x, parent |-> parent]
    ELSE LET halved == [parent EXCEPT ![x] = parent[parent[x]]]
         IN  Find(halved, halved[x])

\* a faulty variant of _union: it links x itself, not the root of x
UnionAttachNode(parent, x, y) ==
    LET fx == Find(parent, x)
        fy == Find(fx.parent, y)
    IN  IF fx.root # fy.root
        THEN [fy.parent EXCEPT ![x] = fy.root]
        ELSE fy.parent

\* _union
Union(parent, x, y) ==
    LET fx == Find(parent, x)
        fy == Find(fx.parent, y)
    IN  IF fx.root # fy.root
        THEN [fy.parent EXCEPT ![fx.root] = fy.root]
        ELSE fy.parent

\* for i in range(n): for j in range(i + 1, n): if ratio >= threshold: union
RECURSIVE UnionPairs(_, _, _, _, _)
UnionPairs(parent, texts, threshold, i, j) ==
    IF i > Len(texts) THEN parent
    ELSE IF j > Len(texts) THEN UnionPairs(parent, texts, threshold, i + 1, i + 2)
    ELSE UnionPairs(IF FuzzRatioAtLeast(texts[i], texts[j], threshold)
                    THEN Union(parent, i, j)
                    ELSE parent,
                    texts, threshold, i, j + 1)

\* [_find(i) for i in range(n)], each _find compressing as it goes
RECURSIVE Roots(_, _, _)
Roots(parent, i, acc) ==
    IF i > Len(parent) THEN acc
    ELSE LET f == Find(parent, i)
         IN  Roots(f.parent, i + 1, Append(acc, f.root))

\* the roots of all rows after the pairwise unions
ClusterRoots(frame, threshold) ==
    LET texts == [i \in 1..Len(frame) |-> frame[i].text]
        parent == UnionPairs([i \in 1..Len(frame) |-> i], texts, threshold, 1, 2)
    IN  Roots(parent, 1, <<>>)

\* group_sizes[_find(i)]
GroupSize(roots, i) == Cardinality({ k \in 1..Len(roots) : roots[k] = roots[i] })

\* a faulty variant of the keep mask: of every cluster the most liked row is
\* kept, the first of them in the frame's order
KeptMostLiked(frame, threshold) ==
    LET roots == ClusterRoots(frame, threshold)
    IN  { i \in 1..Len(frame) :
            \A k \in 1..Len(frame) :
                (k # i /\ roots[k] = roots[i]) =>
                    \/ frame[k].like_count < frame[i].like_count
                    \/ frame[k].like_count = frame[i].like_count /\ i < k }

\* a faulty variant of the keep mask: one representative of every cluster
\* (its root) is kept
KeptOnePerCluster(frame, threshold) ==
    LET roots == ClusterRoots(frame, threshold)
    IN  { i \in 1..Len(frame) : roots[i] = i }

\* the positions whose keep_mask entry is True
KeptPositions(frame, threshold) ==
    LET roots == ClusterRoots(frame, threshold)
    IN  { i \in 1..Len(frame) : GroupSize(roots, i) = 1 }

RECURSIVE ILoc(_, _, _)
ILoc(frame, keep, i) ==
    IF i > Len(frame) THEN <<>>
    ELSE (IF i \in keep THEN << frame[i] >> ELSE <<>>) \o ILoc(frame, keep, i + 1)

\* _near_dedup_remove_all(df, threshold)
NearDedupRemoveAll(frame, threshold) ==
    ILoc(frame, KeptPositions(frame, threshold), 1)

(***************************************************************************)
(* The optional capabilities.  env says which of them the runtime has      *)
(* (_LINGUA_AVAILABLE, _VADER_AVAILABLE, _RAPIDFUZZ_AVAILABLE).  The two   *)
(* models are stand-ins: fixed functions of the text, in percent           *)
(* (confidence) and in hundredths (compound score).                        *)
(***************************************************************************)
T_hola == << "h", "o", "l", "a", " ", "q", "u", "e" >>

T_bad == << "b", "a", "d", " ", "b", "a", "d" >>

T_odd == << "o", "d", "d", " ", "o", "n", "e" >>

T_edge == << "s", "o", " ", "s", "o" >>

\* _lingua_detector.compute_language_confidence_of(text, ENGLISH): the
\* confidence, or the call raising
LinguaConfidence(t) ==
    CASE t = T_hola -> [raises |-> FALSE, conf |-> 20]
      [] t = T_odd  -> [raises |-> TRUE, conf |-> 0]
      [] t = T_edge -> [raises |-> FALSE, conf |-> 50]
      [] OTHER      -> [raises |-> FALSE, conf |-> 90]

\* _vader.polarity_scores(text)["compound"]
VaderCompound(t) ==
    CASE t = T_bad  -> -90
      [] t = T_edge -> -80
      [] OTHER      -> 30

(***************************************************************************)
(* filter_low_value.  A configuration c is the record of the keyword       *)
(* arguments: c.gates is the set of boolean gates that are True, the rest  *)
(* are the numeric thresholds (english_confidence in percent,              *)
(* sentiment_threshold in hundredths).  s = [df, reasons, raised] is the   *)
(* function's local state between two stages; raised says that a statement *)
(* has raised, which ends the call without a result.                       *)
(*                                                                         *)
(* The masks of the timestamp, repeated-character, language and sentiment  *)
(* stages are built by Series.apply.  On an empty frame Series.apply       *)
(* returns an empty Series of the column's dtype (object), not of bool;    *)
(* pandas does not take an empty object Series for a boolean indexer, so   *)
(* df[~mask] in _apply selects no columns and the ["id"] that follows      *)
(* raises KeyError.  The other stages compare (>=) or call isin /          *)
(* duplicated, which give bool masks on an empty frame too.                *)
(***************************************************************************)
GateNames ==
    { "min_chars", "min_alpha", "min_words", "blacklist_match", "emoji_only",
      "url_only", "timestamp_only", "repeat_char", "english_only",
      "sentiment_filter", "dedup" }

\* reasons: dict = {}
EmptyReasons == [k \in {} |-> ""]

Ids(frame) == { frame[i].id : i \in 1..Len(frame) }

\* reasons.setdefault(cid, label) for each cid of ids
SetDefault(reasons, ids, label) ==
    [k \in (DOMAIN reasons) \cup ids |->
        IF k \in DOMAIN reasons THEN reasons[k] ELSE label]

\* a faulty variant of the text normalisation: the lower-cased comparison
\* form is stored in the frame
PrepareNormalised(frame) ==
    [i \in 1..Len(frame) |->
        [frame[i] EXCEPT !.text = NormText(FillNa(frame[i].text))]]

\* df["text"] = df["text"].fillna("").astype(str).str.strip()
Prepare(frame) ==
    [i \in 1..Len(frame) |->
        [frame[i] EXCEPT !.text = PyStrip(FillNa(frame[i].text))]]

\* the ids _apply records: df[~mask]["id"].astype(str), the ids being strings
RemovedIds(frame, mask) == { frame[i].id : i \in { j \in 1..Len(frame) : ~mask[j] } }

\* df[mask]
Select(frame, mask) == ILoc(frame, { i \in 1..Len(frame) : mask[i] }, 1)

\* a faulty variant of a stage's filtering: the reasons are recorded but the
\* frame is not narrowed
ApplyMaskKeepRows(s, mask, label) ==
    [df |-> s.df,
     reasons |-> SetDefault(s.reasons, RemovedIds(s.df, mask), label),
     raised |-> FALSE]

\* _apply(mask, label) followed by df = df[mask]; mask[i] is the mask at row i
ApplyMask(s, mask, label) ==
    [df |-> Select(s.df, mask),
     reasons |-> SetDefault(s.reasons, RemovedIds(s.df, mask), label),
     raised |-> FALSE]

\* the same for a mask built by df["text"].apply(...): KeyError on an empty frame
ApplyRowMask(s, mask, label) ==
    IF s.df = <<>>
    THEN [s EXCEPT !.raised = TRUE]
    ELSE ApplyMask(s, mask, label)

\* a faulty variant of the length stage: the bound is exclusive
StageMinCharsExclusive(s, c) ==
    IF "min_chars" \in c.gates
    THEN ApplyMask(s, [i \in 1..Len(s.df) |->
                          Len(s.df[i].text) > c.min_chars_threshold],
                   "Too Short")
    ELSE s

StageMinChars(s, c) ==
    IF "min_chars" \in c.gates
    THEN ApplyMask(s, [i \in 1..Len(s.df) |->
                          Len(s.df[i].text) >= c.min_chars_threshold],
                   "Too Short")
    ELSE s

StageMinAlpha(s, c) ==
    IF "min_alpha" \in c.gates
    THEN ApplyMask(s, [i \in 1..Len(s.df) |-> CountAlpha(s.df[i].text) >= 2],
                   "No Alpha")
    ELSE s

StageMinWords(s, c) ==
    IF "min_words" \in c.gates
    THEN ApplyMask(s, [i \in 1..Len(s.df) |->
                          WordCount(s.df[i].text) >= c.min_words_threshold],
                   "Too Few Words")
    ELSE s

\* a faulty variant of the blacklist stage: the text is looked up as it is,
\* not lower-cased and trimmed
StageBlacklistRaw(s, c, bl) ==
    IF "blacklist_match" \in c.gates /\ bl # {}
    THEN ApplyMask(s, [i \in 1..Len(s.df) |-> s.df[i].text \notin bl],
                   "Blacklisted")
    ELSE s

\* if blacklist_match and blacklist_texts: an empty (or missing) set is falsy
StageBlacklist(s, c, bl) ==
    IF "blacklist_match" \in c.gates /\ bl # {}
    THEN ApplyMask(s, [i \in 1..Len(s.df) |-> NormText(s.df[i].text) \notin bl],
                   "Blacklisted")
    ELSE s

\* a faulty variant of the emoji stage: it runs whatever its gate says
StageEmojiOnlyUngated(s, c) ==
    ApplyMask(s, [i \in 1..Len(s.df) |->
                     Len(PyStrip(StripEmoji(s.df[i].text))) >= 2],
              "Emoji Only")

StageEmojiOnly(s, c) ==
    IF "emoji_only" \in c.gates
    THEN ApplyMask(s, [i \in 1..Len(s.df) |->
                          Len(PyStrip(StripEmoji(s.df[i].text))) >= 2],
                   "Emoji Only")
    ELSE s

StageUrlOnly(s, c) ==
    IF "url_only" \in c.gates
    THEN ApplyMask(s, [i \in 1..Len(s.df) |->
                          Len(PyStrip(UrlSub(s.df[i].text))) >= 2],
                   "URL Only")
    ELSE s

\* a faulty variant of the timestamp stage: the mask is not negated
StageTimestampKeepsMatches(s, c) ==
    IF "timestamp_only" \in c.gates
    THEN ApplyRowMask(s, [i \in 1..Len(s.df) |-> TimestampFullMatch(s.df[i].text)],
                      "Timestamp")
    ELSE s

StageTimestamp(s, c) ==
    IF "timestamp_only" \in c.gates
    THEN ApplyRowMask(s, [i \in 1..Len(s.df) |-> ~TimestampFullMatch(s.df[i].text)],
                      "Timestamp")
    ELSE s

\* a faulty variant of the repeated-character stage: the gate is inverted
StageRepeatCharInverted(s, c) ==
    IF "repeat_char" \notin c.gates
    THEN ApplyRowMask(s, [i \in 1..Len(s.df) |-> ~RepeatCharSearch(s.df[i].text)],
                      "Repeated Chars")
    ELSE s

StageRepeatChar(s, c) ==
    IF "repeat_char" \in c.gates
    THEN ApplyRowMask(s, [i \in 1..Len(s.df) |-> ~RepeatCharSearch(s.df[i].text)],
                      "Repeated Chars")
    ELSE s

\* a faulty variant of _is_english: a comment the detector fails on is dropped
IsEnglishFailClosed(t, min_conf) ==
    LET d == LinguaConfidence(t)
    IN  IF d.raises THEN FALSE ELSE d.conf >= min_conf

\* _is_english: keep on detection failure
IsEnglish(t, min_conf) ==
    LET d == LinguaConfidence(t)
    IN  IF d.raises THEN TRUE ELSE d.conf >= min_conf

\* a faulty variant of the language stage: the detector is used whether it is
\* there or not, and the call fails when it is not
StageEnglishNeedsModel(s, c, e) ==
    IF "english_only" \in c.gates
    THEN IF e.lingua
         THEN ApplyRowMask(s, [i \in 1..Len(s.df) |->
                                  IsEnglish(s.df[i].text, c.english_confidence)],
                           "Non-English")
         ELSE [s EXCEPT !.raised = TRUE]
    ELSE s

StageEnglish(s, c, e) ==
    IF "english_only" \in c.gates /\ e.lingua
    THEN ApplyRowMask(s, [i \in 1..Len(s.df) |->
                             IsEnglish(s.df[i].text, c.english_confidence)],
                      "Non-English")
    ELSE s

\* a faulty variant of the sentiment stage: a score equal to the threshold is kept
StageSentimentKeepsEqual(s, c, e) ==
    IF "sentiment_filter" \in c.gates /\ e.vader
    THEN ApplyRowMask(s, [i \in 1..Len(s.df) |->
                             VaderCompound(s.df[i].text) >= c.sentiment_threshold],
                      "Negative Sentiment")
    ELSE s

StageSentiment(s, c, e) ==
    IF "sentiment_filter" \in c.gates /\ e.vader
    THEN ApplyRowMask(s, [i \in 1..Len(s.df) |->
                             VaderCompound(s.df[i].text) > c.sentiment_threshold],
                      "Negative Sentiment")
    ELSE s

\* a faulty variant of the exact-duplicate mask: duplicated() with its default
\* keep="first", which does not mark the first copy
DuplicatedKeepFirst(frame, i) ==
    \E j \in 1..(i - 1) : NormText(frame[j].text) = NormText(frame[i].text)

\* norm.duplicated(keep=False) at row i: another row has the same normalised text
Duplicated(frame, i) ==
    \E j \in 1..Len(frame) :
        j # i /\ NormText(frame[j].text) = NormText(frame[i].text)

\* the exact-duplicate pass of the dedup stage
ExactDedup(s) ==
    ApplyMask(s, [i \in 1..Len(s.df) |-> ~Duplicated(s.df, i)], "Duplicate")

\* a faulty variant of the near-duplicate pass: a label of its own
NearDedupOwnLabel(s, threshold) ==
    LET kept == NearDedupRemoveAll(s.df, threshold)
    IN  [df |-> kept,
         reasons |-> SetDefault(s.reasons, Ids(s.df) \ Ids(kept), "Near Duplicate"),
         raised |-> FALSE]

\* the near-duplicate pass and the reasons of the rows it removed
NearDedup(s, threshold) ==
    LET kept == NearDedupRemoveAll(s.df, threshold)
    IN  [df |-> kept,
         reasons |-> SetDefault(s.reasons, Ids(s.df) \ Ids(kept), "Duplicate"),
         raised |-> FALSE]

StageDedup(s, c, e) ==
    IF "dedup" \in c.gates
    THEN IF e.rapidfuzz /\ c.dedup_threshold < 100
         THEN NearDedup(ExactDedup(s), c.dedup_threshold)
         ELSE ExactDedup(s)
    ELSE s

\* df = df.copy(): the frame the function works on from here
LocalCopy(frame) == frame

\* the local state after the function's first three statements
Entry(frame) ==
    [df |-> Prepare(LocalCopy(frame)), reasons |-> EmptyReasons, raised |-> FALSE]

\* what the assignment to df["text"] leaves in the caller's frame: the frame
\* as it was, since the function assigns to the copy it made
CallerFrame(frame) == frame

\* what a call gives its caller: the returned pair, or an exception
Returned(frame, reason_map) ==
    [raised |-> FALSE, retained |-> frame, reasons |-> reason_map]

Raised == [raised |-> TRUE, retained |-> <<>>, reasons |-> EmptyReasons]

\* a stage that is not reached once a statement has raised
Then(s, t) == IF s.raised THEN s ELSE t

\* the whole function, as one value
FilterLowValue(frame, c, bl, e) ==
    LET s1  == StageMinChars(Entry(frame), c)
        s2  == StageMinAlpha(s1, c)
        s3  == StageMinWords(s2, c)
        s4  == StageBlacklist(s3, c, bl)
        s5  == StageEmojiOnly(s4, c)
        s6  == StageUrlOnly(s5, c)
        s7  == StageTimestamp(s6, c)
        s8  == Then(s7, StageRepeatChar(s7, c))
        s9  == Then(s8, StageEnglish(s8, c, e))
        s10 == Then(s9, StageSentiment(s9, c, e))
        s11 == Then(s10, StageDedup(s10, c, e))
    IN  IF s11.raised THEN Raised ELSE Returned(s11.df, s11.reasons)

(***************************************************************************)
(* The state: one caller, which holds a frame of comments (input) and      *)
(* calls filter_low_value on it; the function's position (pc) and locals    *)
(* (df, reasons); what the last call returned (ret) and, once the caller   *)
(* has called again, the previous call's input and result (prev); the      *)
(* capabilities the call has printed a warning about (warned).  The        *)
(* server's analysis job: the filter settings the request carried          *)
(* (raw_settings), the keyword arguments built from them (filter_kwargs)   *)
(* and how far the job has come (job).                                     *)
(***************************************************************************)
VARIABLES input, cfg, blacklist_texts, env, pc, df, reasons, ret, prev, calls,
          warned, raw_settings, filter_kwargs, job, other, stores, last, parquet,
          registry, queue, info, batches, requests, poller, unscored

vars == << input, cfg, blacklist_texts, env, pc, df, reasons, ret, prev, calls,
           warned, raw_settings, filter_kwargs, job, other, stores, last, parquet,
           registry, queue, info, batches, requests, poller, unscored >>

\* the variables of the server's job
server == << raw_settings, filter_kwargs, job, registry, queue >>

\* the variables of the AI scoring of a report: the claude_batch block of its
\* _info.json, the batches of the Batches API, the submit requests under way,
\* the poller, and whether the report's parquet has unscored comments
scoring == << info, batches, requests, poller, unscored >>

\* the variables of the server's comment stores, of a report's parquet and of
\* its scoring
dashboard == << stores, last, parquet, scoring >>

\* a CommentStore before its first access: no cache, no file
NewStore == [cache |-> [loaded |-> FALSE, data |-> <<>>], disk |-> <<>>]

StoreNames == { "saved", "blacklist", "deleted" }

\* no call on a store has been made
NoCall == [op |-> "none", store |-> "none", raised |-> FALSE, wrote |-> FALSE, out |-> 0]

\* the claude_batch block of a report that was never submitted for scoring
NoBlock == [status |-> "none", batch_id |-> 0, retry_count |-> 0]

\* the poller between two runs
PollerIdle == [pc |-> "idle", cb |-> NoBlock, new |-> NoBlock]

\* no report is being scored
NoScoring ==
    /\ info = NoBlock
    /\ batches = <<>>
    /\ requests = <<>>
    /\ poller = PollerIdle
    /\ unscored = TRUE

\* the stores are new and there is no report
Quiet ==
    /\ stores = [n \in StoreNames |-> NewStore]
    /\ last = NoCall
    /\ parquet = {}
    /\ NoScoring

\* the texts of the input frames
T_hi == << " ", " ", "h", "i", " " >>

T_num == << "1", "2", " ", "3", "4" >>

T_hello == << "h", "e", "l", "l", "o" >>

T_sub == << "S", "u", "b", " ", "N", "o", "w" >>

T_emoji == << "U+1F600", " ", "U+1F600" >>

T_url == << "w", "w", "w", ".", "a", "b", ".", "c", " ", "x" >>

T_time == << "1", ":", "2", "3" >>

T_rep == << "a", "a", "a", "a", "a", " ", "b" >>

T_good == << "g", "o", "o", "d", " ", "v", "i", "d" >>

T_goodbang == << "g", "o", "o", "d", " ", "v", "i", "d", "!" >>

T_Good == << "G", "o", "o", "d", " ", "V", "i", "d" >>

T_nice == << "n", "i", "c", "e", " ", "o", "n", "e", " " >>

StagePool ==
    { T_hi, T_num, T_hello, T_sub, T_emoji, T_url, T_time, T_rep, T_hola,
      T_odd, T_edge, T_bad, T_good, T_goodbang, T_nice, NullText }

\* the texts of the rows after the first
Companions == { T_good, T_goodbang, T_Good }

\* the longest input frame
MaxBatch == 2

IdPool == << "c1", "c2", "c3", "c4", "c5" >>

LikePool == << 7, 0, 3, 0, 1 >>

MkFrame(texts) ==
    [i \in 1..Len(texts) |->
        [id |-> IdPool[i], text |-> texts[i], like_count |-> LikePool[i]]]

SeqsUpTo(S, n) == UNION { [1..k -> S] : k \in 0..n }

StageBatches ==
    { <<>> } \cup
    { MkFrame(<< t >> \o rest) : t \in StagePool, rest \in SeqsUpTo(Companions, MaxBatch - 1) }

\* a configuration with the gates g and the thresholds of the small frames
SmallConfig(g, dt) ==
    [gates |-> g, min_chars_threshold |-> 4, min_words_threshold |-> 2,
     english_confidence |-> 50, sentiment_threshold |-> -80, dedup_threshold |-> dt]

ShapeGates == { "min_chars", "min_alpha", "min_words" }

StageConfigs ==
    { SmallConfig(g, 85) : g \in { GateNames, GateNames \ ShapeGates, {} }
                                 \cup { {x} : x \in GateNames } }
    \cup { SmallConfig(g, 100) : g \in { GateNames, {"dedup"} } }

Blacklists == { {}, { << "s", "u", "b", " ", "n", "o", "w" >>, T_goodbang } }

Env(l, v, r) == [lingua |-> l, vader |-> v, rapidfuzz |-> r]

Envs == { Env(TRUE, TRUE, TRUE), Env(FALSE, FALSE, FALSE), Env(TRUE, TRUE, FALSE) }

\* the state before the first call, for the given families of arguments
InitCall(frames, configs, blacklists, envs) ==
    /\ input \in frames
    /\ cfg \in configs
    /\ blacklist_texts \in blacklists
    /\ env \in envs
    /\ pc = "idle"
    /\ df = <<>>
    /\ reasons = EmptyReasons
    /\ ret = <<>>
    /\ prev = <<>>
    /\ calls = 0
    /\ warned = {}

\* _jobs has no entry for the job
NoEntry == [present |-> FALSE, status |-> "none", report_path |-> "none",
            finished_at |-> FALSE]

\* no analysis job of the server is under way
NoJob ==
    /\ raw_settings = [shape |-> "none", items |-> << >>]
    /\ filter_kwargs = << >>
    /\ job = "none"
    /\ registry = NoEntry
    /\ queue = <<>>

\* the call of a second thread: its arguments and its local variables
Invocation(frame, c, bl) ==
    [input |-> frame, cfg |-> c, blacklist_texts |-> bl, pc |-> "idle",
     df |-> <<>>, reasons |-> EmptyReasons, ret |-> <<>>]

\* no second thread is calling
NoOther == other = Invocation(<<>>, SmallConfig({}, 100), {})

InitWith(frames, configs, blacklists, envs) ==
    InitCall(frames, configs, blacklists, envs) /\ NoJob /\ NoOther /\ Quiet

Init == InitWith(StageBatches, StageConfigs, Blacklists, Envs)

Locals == [df |-> df, reasons |-> reasons, raised |-> FALSE]

\* the [warn] line a stage prints: its gate is on and the capability it
\* needs is not there (for dedup, when near-duplicates are asked for)
StageWarning(at, c, e) ==
    IF at \notin c.gates THEN {}
    ELSE IF at = "english_only" /\ ~e.lingua THEN { "lingua" }
    ELSE IF at = "sentiment_filter" /\ ~e.vader THEN { "vader" }
    ELSE IF at = "dedup" /\ ~e.rapidfuzz /\ c.dedup_threshold < 100 THEN { "rapidfuzz" }
    ELSE {}

\* one stage: the function at pc at runs it and moves to pc next, or raises,
\* which ends the call
Step(at, next, s) ==
    /\ pc = at
    /\ pc' = IF s.raised THEN "raised" ELSE next
    /\ df' = s.df
    /\ reasons' = s.reasons
    /\ ret' = IF s.raised THEN << Raised >> ELSE ret
    /\ warned' = warned \cup StageWarning(at, cfg, env)
    /\ UNCHANGED << input, cfg, blacklist_texts, env, prev, calls, server, other, dashboard >>

\* a faulty variant of the call: a later call works on the frame the call
\* before it left behind
CallOnStaleFrame ==
    /\ pc = "idle"
    /\ pc' = "min_chars"
    /\ df' = IF calls = 0 THEN Entry(input).df ELSE Prepare(df)
    /\ reasons' = Entry(input).reasons
    /\ calls' = calls + 1
    /\ input' = CallerFrame(input)
    /\ warned' = {}
    /\ UNCHANGED << cfg, blacklist_texts, env, ret, prev, server, other, dashboard >>

\* the call: df = df.copy(), the text column stripped, reasons = {}
Call ==
    /\ pc = "idle"
    /\ pc' = "min_chars"
    /\ df' = Entry(input).df
    /\ reasons' = Entry(input).reasons
    /\ calls' = calls + 1
    /\ input' = CallerFrame(input)
    /\ warned' = {}
    /\ UNCHANGED << cfg, blacklist_texts, env, ret, prev, server, other, dashboard >>

MinChars == Step("min_chars", "min_alpha", StageMinChars(Locals, cfg))

MinAlpha == Step("min_alpha", "min_words", StageMinAlpha(Locals, cfg))

MinWords == Step("min_words", "blacklist_match", StageMinWords(Locals, cfg))

BlacklistMatch ==
    Step("blacklist_match", "emoji_only", StageBlacklist(Locals, cfg, blacklist_texts))

EmojiOnly == Step("emoji_only", "url_only", StageEmojiOnly(Locals, cfg))

UrlOnly == Step("url_only", "timestamp_only", StageUrlOnly(Locals, cfg))

TimestampOnly == Step("timestamp_only", "repeat_char", StageTimestamp(Locals, cfg))

RepeatChar == Step("repeat_char", "english_only", StageRepeatChar(Locals, cfg))

EnglishOnly == Step("english_only", "sentiment_filter", StageEnglish(Locals, cfg, env))

SentimentFilter == Step("sentiment_filter", "dedup", StageSentiment(Locals, cfg, env))

Dedup == Step("dedup", "return", StageDedup(Locals, cfg, env))

\* return df.reset_index(drop=True), reasons
Return ==
    /\ pc = "return"
    /\ pc' = "done"
    /\ ret' = << Returned(df, reasons) >>
    /\ UNCHANGED << input, cfg, blacklist_texts, env, df, reasons, prev, calls, warned,
                    server, other, dashboard >>

Next ==
    \/ Call
    \/ MinChars
    \/ MinAlpha
    \/ MinWords
    \/ BlacklistMatch
    \/ EmojiOnly
    \/ UrlOnly
    \/ TimestampOnly
    \/ RepeatChar
    \/ EnglishOnly
    \/ SentimentFilter
    \/ Dedup
    \/ Return

Spec == Init /\ [][Next]_vars

(***************************************************************************)
(* The dedup stage on frames of short texts: with a threshold of 50, "aa"  *)
(* and "bb" are each similar to "ab" and not to each other; "Ab" and "ab"   *)
(* are equal once normalised.                                              *)
(***************************************************************************)
T_aa == << "a", "a" >>

T_ab == << "a", "b" >>

T_bb == << "b", "b" >>

T_Ab == << "A", "b" >>

DedupPool == { T_aa, T_ab, T_bb, T_Ab }

\* the longest frame of the dedup family
MaxCluster == 3

DedupBatches == { MkFrame(ts) : ts \in SeqsUpTo(DedupPool, MaxCluster) }

\* thresholds that let the two-character texts reach the dedup stage
DedupConfig(g, dt) ==
    [gates |-> g, min_chars_threshold |-> 2, min_words_threshold |-> 1,
     english_confidence |-> 50, sentiment_threshold |-> -80, dedup_threshold |-> dt]

DedupConfigs ==
    { DedupConfig(g, dt) : g \in { {"dedup"}, GateNames, {} }, dt \in { 50, 100 } }

InitDedup == InitWith(DedupBatches, DedupConfigs, { {} }, Envs)

SpecDedup == InitDedup /\ [][Next]_vars

(***************************************************************************)
(* The scenario of the five comments, with the defaults of the signature.  *)
(***************************************************************************)
DefaultMinChars == 20

DefaultMinWords == 3

DefaultEnglishConfidence == 50

DefaultSentimentThreshold == -80

DefaultDedupThreshold == 85

DefaultConfig ==
    [gates |-> GateNames,
     min_chars_threshold |-> DefaultMinChars,
     min_words_threshold |-> DefaultMinWords,
     english_confidence |-> DefaultEnglishConfidence,
     sentiment_threshold |-> DefaultSentimentThreshold,
     dedup_threshold |-> DefaultDedupThreshold]

T_hi2 == << "h", "i" >>

T_great == << "t", "h", "i", "s", " ", "i", "s", " ", "a", " ", "g", "r", "e", "a", "t", " ", "v", "i", "d", "e", "o", " ", "t", "h", "a", "n", "k", "s" >>

T_greatbang == << "t", "h", "i", "s", " ", "i", "s", " ", "a", " ", "g", "r", "e", "a", "t", " ", "v", "i", "d", "e", "o", " ", "t", "h", "a", "n", "k", "s", "!", "!" >>

T_check == << "c", "h", "e", "c", "k", " ", "1", ":", "2", "3", " ", "f", "o", "r", " ", "t", "h", "e", " ", "b", "e", "s", "t", " ", "p", "a", "r", "t" >>

T_aaaa == << "a", "a", "a", "a", "a", "a", "a", "a", "a", "a" >>

ScenarioFrame == MkFrame(<< T_hi2, T_great, T_greatbang, T_check, T_aaaa >>)

AllEnvs == { Env(l, v, r) : l \in BOOLEAN, v \in BOOLEAN, r \in BOOLEAN }

InitScenario == InitWith({ ScenarioFrame }, { DefaultConfig }, Blacklists, AllEnvs)

SpecScenario == InitScenario /\ [][Next]_vars

(***************************************************************************)
(* Pairs of configurations: the caller's, of at most four gates, and the   *)
(* ones that enable a subset of its gates.                                 *)
(***************************************************************************)
MonoGateSets ==
    { { "min_chars", "blacklist_match", "dedup" },
      { "min_alpha", "url_only", "repeat_char", "dedup" },
      { "min_words", "timestamp_only", "english_only", "dedup" },
      { "emoji_only", "sentiment_filter", "dedup" },
      { "min_chars", "repeat_char", "sentiment_filter" } }

MonoConfigs == { SmallConfig(g, 85) : g \in MonoGateSets }

SubConfigs(c) == { [c EXCEPT !.gates = g] : g \in SUBSET c.gates }

InitMono == InitWith(StageBatches, MonoConfigs, Blacklists, Envs)

SpecMono == InitMono /\ [][Next]_vars

(***************************************************************************)
(* A caller that calls again: on the same frame, or on the frame the call  *)
(* returned.                                                               *)
(***************************************************************************)
\* the most calls of one caller
MaxCalls == 2

CallAgain(frame) ==
    /\ pc \in { "done", "raised" }
    /\ calls < MaxCalls
    /\ pc' = "idle"
    /\ prev' = << [input |-> input, ret |-> ret[1]] >>
    /\ input' = frame
    /\ UNCHANGED << cfg, blacklist_texts, env, df, reasons, ret, calls, warned, server, other, dashboard >>

RerunSame == CallAgain(input)

RerunOnRetained == pc = "done" /\ CallAgain(ret[1].retained)

NextRerun == Next \/ RerunSame \/ RerunOnRetained

RerunConfigs ==
    { SmallConfig(g, 85) : g \in { GateNames, GateNames \ ShapeGates, {"dedup"}, {} } }

InitRerun == InitWith(StageBatches, RerunConfigs, Blacklists, Envs)

SpecRerun == InitRerun /\ [][NextRerun]_vars

(***************************************************************************)
(* The properties.                                                         *)
(***************************************************************************)
\* the stages in the order filter_low_value runs them
StageOrder ==
    << "min_chars", "min_alpha", "min_words", "blacklist_match", "emoji_only",
       "url_only", "timestamp_only", "repeat_char", "english_only",
       "sentiment_filter", "dedup" >>

\* the number of stages that have run when the function is at position p
StagesRun(p) ==
    IF p = "idle" THEN 0
    ELSE IF p \in { "return", "done" } THEN Len(StageOrder)
    ELSE (CHOOSE k \in 1..Len(StageOrder) : StageOrder[k] = p) - 1

\* stage k does something in this run: its gate is on and what it needs is there
InEffect(k) ==
    /\ StageOrder[k] \in cfg.gates
    /\ StageOrder[k] = "blacklist_match" => blacklist_texts # {}
    /\ StageOrder[k] = "english_only" => env.lingua
    /\ StageOrder[k] = "sentiment_filter" => env.vader

\* the predicate of the k-th of the ten per-comment stages rejects text t
Rejects(k, t) ==
    CASE k = 1 -> Len(t) < cfg.min_chars_threshold
      [] k = 2 -> CountAlpha(t) < 2
      [] k = 3 -> WordCount(t) < cfg.min_words_threshold
      [] k = 4 -> NormText(t) \in blacklist_texts
      [] k = 5 -> Len(PyStrip(StripEmoji(t))) < 2
      [] k = 6 -> Len(PyStrip(UrlSub(t))) < 2
      [] k = 7 -> TimestampFullMatch(t)
      [] k = 8 -> RepeatCharSearch(t)
      [] k = 9 -> ~IsEnglish(t, cfg.english_confidence)
      [] k = 10 -> VaderCompound(t) <= cfg.sentiment_threshold

StageLabel ==
    << "Too Short", "No Alpha", "Too Few Words", "Blacklisted", "Emoji Only",
       "URL Only", "Timestamp", "Repeated Chars", "Non-English",
       "Negative Sentiment", "Duplicate" >>

\* the text of the caller's row i as the stages see it
SeenText(i) == PyStrip(FillNa(input[i].text))

\* the stages among those already run that are in effect and reject row i
Rejecting(i) ==
    { k \in 1..10 : k <= StagesRun(pc) /\ InEffect(k) /\ Rejects(k, SeenText(i)) }

Least(S) == CHOOSE k \in S : \A m \in S : k <= m

\* C1 (as the specification states it): every call returns, and what it
\* returns partitions the input: the retained ids and the ids with a reason
\* are disjoint, together they are the input's ids, and the two counts add
\* up to the input's length
TotalPartition ==
    /\ pc # "raised"
    /\ pc = "done" =>
          /\ Ids(ret[1].retained) \cap DOMAIN ret[1].reasons = {}
          /\ Ids(ret[1].retained) \cup DOMAIN ret[1].reasons = Ids(input)
          /\ Len(ret[1].retained) + Cardinality(DOMAIN ret[1].reasons) = Len(input)

\* the partition alone, for the calls that return
PartitionWhenReturned ==
    pc = "done" =>
        /\ Ids(ret[1].retained) \cap DOMAIN ret[1].reasons = {}
        /\ Ids(ret[1].retained) \cup DOMAIN ret[1].reasons = Ids(input)
        /\ Len(ret[1].retained) + Cardinality(DOMAIN ret[1].reasons) = Len(input)

\* C3: a removed comment carries the label of the first stage, in the fixed
\* order, that is in effect and rejects it (a comment no per-comment stage
\* rejects has a reason only from the dedup stage, "Duplicate"); a reason
\* once recorded is never changed, and a removed comment is in the frame of
\* no later stage
FirstRejectingStageLabels ==
    /\ [](pc \notin { "idle", "raised" } =>
            \A i \in 1..Len(input) :
                IF Rejecting(i) # {}
                THEN /\ input[i].id \in DOMAIN reasons
                     /\ reasons[input[i].id] = StageLabel[Least(Rejecting(i))]
                     /\ input[i].id \notin Ids(df)
                ELSE input[i].id \in DOMAIN reasons =>
                        /\ StagesRun(pc) = 11
                        /\ "dedup" \in cfg.gates
                        /\ reasons[input[i].id] = "Duplicate")
    /\ [][\A id \in DOMAIN reasons :
             /\ id \in DOMAIN reasons'
             /\ reasons'[id] = reasons[id]
             /\ id \notin Ids(df')]_vars

\* C3 happens: a comment that three stages in effect reject ("hi": too
\* short, too few words, and a lone near-duplicate is not needed) has the
\* label of the first of them
FirstOfSeveralLabelled ==
    /\ pc = "done"
    /\ \E i \in 1..Len(input) :
          /\ Cardinality(Rejecting(i)) >= 2
          /\ Least(Rejecting(i)) = 1
          /\ 3 \in Rejecting(i)
          /\ ret[1].reasons[input[i].id] = "Too Short"

\* what the call would return under configuration c, everything else the same
RunUnder(c) == FilterLowValue(input, c, blacklist_texts, env)

\* C2 (as the specification states it): with the boolean gates of a second
\* configuration a subset of the first's and the thresholds the same, the
\* second call retains at least as many comments as the first
FewerGatesRetainNoFewer ==
    pc = "done" =>
        \A c2 \in SubConfigs(cfg) :
            /\ ~RunUnder(c2).raised
            /\ Len(RunUnder(c2).retained) >= Len(ret[1].retained)

\* C2 (amended): when the second configuration, besides, has dedup off, the
\* second call returns whenever the first does and retains every comment the
\* first retains
FewerGatesWithoutDedupRetainAll ==
    pc = "done" =>
        \A c2 \in SubConfigs(cfg) :
            "dedup" \notin c2.gates =>
                /\ ~RunUnder(c2).raised
                /\ Ids(ret[1].retained) \subseteq Ids(RunUnder(c2).retained)
                /\ Len(RunUnder(c2).retained) >= Len(ret[1].retained)

\* C2 happens: a call with dedup on has removed comments that a call with
\* fewer gates, dedup among those turned off, retains besides all of its own
FewerGatesRetainedMore ==
    /\ pc = "done"
    /\ "dedup" \in cfg.gates
    /\ Len(ret[1].retained) > 0
    /\ \E c2 \in SubConfigs(cfg) :
          /\ "dedup" \notin c2.gates
          /\ c2.gates # {}
          /\ Len(RunUnder(c2).retained) > Len(ret[1].retained)

\* the frame the near-duplicate pass of the dedup stage gets
NearPhaseFrame == ExactDedup(Locals).df

\* the near-duplicate pass runs in this call
NearPhaseRuns ==
    "dedup" \in cfg.gates /\ env.rapidfuzz /\ cfg.dedup_threshold < 100

\* rows i and j of frame f are similar at the configured threshold
Similar(f, i, j) == FuzzRatioAtLeast(f[i].text, f[j].text, cfg.dedup_threshold)

\* C4: if A is similar to B and B to C but A is not similar to C, the
\* near-duplicate pass removes all three, each with reason "Duplicate"
ChainedNearDuplicatesAllRemoved ==
    [][(pc = "dedup" /\ NearPhaseRuns) =>
          LET f == NearPhaseFrame
          IN  \A a, b, c \in 1..Len(f) :
                  (Similar(f, a, b) /\ Similar(f, b, c) /\ ~Similar(f, a, c)) =>
                      \A x \in { a, b, c } :
                          /\ f[x].id \notin Ids(df')
                          /\ f[x].id \in DOMAIN reasons'
                          /\ reasons'[f[x].id] = "Duplicate"]_vars

\* C4 happens: a call whose only stage is dedup got three comments with
\* distinct texts, the first similar to the third and the third to the
\* second but not the first to the second, and has returned without them
ChainRemoved ==
    /\ pc = "done"
    /\ cfg.gates = { "dedup" }
    /\ NearPhaseRuns
    /\ Len(input) = 3
    /\ input = Prepare(input)
    /\ \A i, j \in 1..3 : i # j => NormText(input[i].text) # NormText(input[j].text)
    /\ Similar(input, 1, 3) /\ Similar(input, 3, 2) /\ ~Similar(input, 1, 2)
    /\ ret[1].retained = <<>>
    /\ \A i \in 1..3 : ret[1].reasons[input[i].id] = "Duplicate"

\* the rows joined to the rows of S by chains of similar rows
RECURSIVE Component(_, _)
Component(f, S) ==
    LET N == S \cup { j \in 1..Len(f) : \E i \in S : Similar(f, i, j) \/ Similar(f, j, i) }
    IN  IF N = S THEN S ELSE Component(f, N)

\* C5: the clusters of the near-duplicate pass are the connected components
\* of the similarity graph; a comment survives the pass iff its component is
\* itself alone, and every member of a larger component is removed
ClustersAreComponents ==
    [][(pc = "dedup" /\ NearPhaseRuns) =>
          LET f == NearPhaseFrame
              roots == ClusterRoots(f, cfg.dedup_threshold)
          IN  /\ \A i, j \in 1..Len(f) :
                     (roots[i] = roots[j]) <=> (j \in Component(f, { i }))
              /\ \A i \in 1..Len(f) :
                     (f[i].id \in Ids(df')) <=> (Component(f, { i }) = { i })
              /\ \A i \in 1..Len(f) :
                     Component(f, { i }) # { i } =>
                         /\ f[i].id \in DOMAIN reasons'
                         /\ reasons'[f[i].id] = "Duplicate"]_vars

\* C5 happens: of three comments with distinct texts that reached the pass,
\* two were in one component and are gone, the third was alone and is kept
PairRemovedLonerKept ==
    /\ pc = "done"
    /\ cfg.gates = { "dedup" }
    /\ NearPhaseRuns
    /\ Len(input) = 3
    /\ input = Prepare(input)
    /\ \A i, j \in 1..3 : i # j => NormText(input[i].text) # NormText(input[j].text)
    /\ \E i \in 1..3 :
          /\ Component(input, { i }) = { i }
          /\ ret[1].retained = << input[i] >>
    /\ Cardinality(DOMAIN ret[1].reasons) = 2

\* row i of frame f has the normalised text of another row of f
HasExactCopy(f, i) ==
    \E j \in 1..Len(f) : j # i /\ PyStrip(PyLower(f[j].text)) = PyStrip(PyLower(f[i].text))

\* C6 (as the specification states it): with dedup on, every member of a
\* group of comments with the same normalised text is removed with reason
\* "Duplicate" if dedup_threshold < 100, and only then: at a threshold of 100
\* or more exact duplicates are not removed
ExactDuplicatesRemovedOnlyBelow100 ==
    [][(pc = "dedup" /\ "dedup" \in cfg.gates) =>
          \A i \in 1..Len(df) :
              HasExactCopy(df, i) =>
                  IF cfg.dedup_threshold < 100
                  THEN /\ df[i].id \notin Ids(df')
                       /\ df[i].id \in DOMAIN reasons'
                       /\ reasons'[df[i].id] = "Duplicate"
                  ELSE df[i].id \in Ids(df')]_vars

\* C6 (amended): with dedup on, whatever dedup_threshold is, every member
\* of a group of comments with the same normalised text is removed with
\* reason "Duplicate", and none survives
ExactDuplicatesAlwaysRemoved ==
    [][(pc = "dedup" /\ "dedup" \in cfg.gates) =>
          \A i \in 1..Len(df) :
              HasExactCopy(df, i) =>
                  /\ df[i].id \notin Ids(df')
                  /\ df[i].id \in DOMAIN reasons'
                  /\ reasons'[df[i].id] = "Duplicate"]_vars

\* C6 happens: at dedup_threshold 100 a call whose only stage is dedup has
\* returned without two comments of the same normalised text
ExactCopiesRemovedAt100 ==
    /\ pc = "done"
    /\ cfg.gates = { "dedup" }
    /\ cfg.dedup_threshold = 100
    /\ \E i, j \in 1..Len(input) :
          /\ i # j
          /\ NormText(FillNa(input[i].text)) = NormText(FillNa(input[j].text))
          /\ input[i].text # input[j].text
          /\ { input[i].id, input[j].id } \cap Ids(ret[1].retained) = {}
          /\ ret[1].reasons[input[i].id] = "Duplicate"
          /\ ret[1].reasons[input[j].id] = "Duplicate"

\* the reason the returned map gives for the comment with this id
ReasonOf(id) == IF id \in DOMAIN ret[1].reasons THEN ret[1].reasons[id] ELSE "none"

\* every optional capability is there
FullEnv == env.lingua /\ env.vader /\ env.rapidfuzz

\* C7 (as the specification states it): in the scenario of the five
\* comments, all gates on and default thresholds, "hi" is dropped as Too Few
\* Words or Too Short, the two "great video" comments as Duplicate, the
\* "check 1:23" comment is retained, and "aaaaaaaaaa" is dropped as Repeated
\* Chars
ScenarioAsStated ==
    (pc = "done" /\ FullEnv) =>
        /\ ReasonOf("c1") \in { "Too Few Words", "Too Short" }
        /\ ReasonOf("c2") = "Duplicate"
        /\ ReasonOf("c3") = "Duplicate"
        /\ Ids(ret[1].retained) = { "c4" }
        /\ ReasonOf("c5") = "Repeated Chars"

\* C7 (amended): with fuzzy matching available the call returns, "hi" is
\* dropped as Too Short, the two "great video" comments as Duplicate, the
\* "check 1:23" comment alone is retained, and "aaaaaaaaaa", 10 characters
\* against a min_chars_threshold of 20, is dropped as Too Short
ScenarioAsComputed ==
    /\ pc # "raised"
    /\ (pc = "done" /\ env.rapidfuzz) =>
          /\ ReasonOf("c1") = "Too Short"
          /\ ReasonOf("c2") = "Duplicate"
          /\ ReasonOf("c3") = "Duplicate"
          /\ ret[1].retained = << Prepare(input)[4] >>
          /\ ReasonOf("c5") = "Too Short"

\* C7 happens: the scenario's call has returned, every capability there, the
\* repeated-character stage run and rejecting "aaaaaaaaaa", whose reason is
\* Too Short
ScenarioReturned ==
    /\ pc = "done"
    /\ FullEnv
    /\ input = ScenarioFrame
    /\ cfg = DefaultConfig
    /\ 8 \in Rejecting(5)
    /\ ReasonOf("c5") = "Too Short"
    /\ Ids(ret[1].retained) = { "c4" }

\* a call has ended, and the call before it was on the same comments
SecondCallOnSameInput ==
    /\ pc \in { "done", "raised" }
    /\ prev # <<>>
    /\ prev[1].input = input

CallOnOwnOutput ==
    /\ pc \in { "done", "raised" }
    /\ prev # <<>>
    /\ ~prev[1].ret.raised
    /\ input = prev[1].ret.retained

\* C9 (as the specification states it): a call on the retained output of a
\* call, configuration and blacklist the same, returns that output whole and
\* an empty reason map
IdempotentOnRetained == CallOnOwnOutput => ret[1] = Returned(input, EmptyReasons)

\* the same, for the calls made on an output that is not empty
IdempotentOnNonEmptyRetained ==
    (CallOnOwnOutput /\ input # <<>>) => ret[1] = Returned(input, EmptyReasons)

\* the caller's row with the id of the retained row r
InputRow(r) == input[CHOOSE i \in 1..Len(input) : input[i].id = r.id]

\* C10 (as the specification states it): the id, like_count and text of
\* every retained comment are those of the same comment in the input, and
\* the caller's frame is never changed
ContentUnchanged ==
    /\ [](pc = "done" =>
            \A k \in 1..Len(ret[1].retained) :
                /\ ret[1].retained[k].id \in Ids(input)
                /\ ret[1].retained[k] = InputRow(ret[1].retained[k]))
    /\ [][input' = input]_vars

\* C10 (amended): the id and like_count of every retained comment are those
\* of the same comment in the input, its text is the input's text with a
\* missing value made the empty text and the white space at both ends
\* trimmed, and the caller's frame is never changed
ContentTrimmed ==
    /\ [](pc = "done" =>
            \A k \in 1..Len(ret[1].retained) :
                /\ ret[1].retained[k].id \in Ids(input)
                /\ ret[1].retained[k].like_count =
                       InputRow(ret[1].retained[k]).like_count
                /\ ret[1].retained[k].text =
                       PyStrip(FillNa(InputRow(ret[1].retained[k]).text)))
    /\ [][input' = input]_vars

\* C10 happens: a call has returned a comment whose text is not the text the
\* caller's frame has for it, and another whose text is
TrimmedTextReturned ==
    /\ pc = "done"
    /\ \E k \in 1..Len(ret[1].retained) :
          ret[1].retained[k].text # InputRow(ret[1].retained[k]).text
    /\ \E k \in 1..Len(ret[1].retained) :
          ret[1].retained[k] = InputRow(ret[1].retained[k])

(***************************************************************************)
(* The blacklist as the server builds it for a job, and calls made with    *)
(* it.                                                                     *)
(***************************************************************************)
T_subscribe == << "S", "u", "b", "s", "c", "r", "i", "b", "e", " ", "N", "o", "w" >>

T_subscribe_norm == << "s", "u", "b", "s", "c", "r", "i", "b", "e", " ", "n", "o", "w" >>

T_subscribe_raw == << " ", " ", "S", "U", "B", "S", "C", "R", "I", "B", "E", " ", "n", "o", "w", " " >>

T_blank == << " ", " " >>

\* blacklist_texts of _run_analysis_inner: empty unless blacklist_match is on
\* (on by default); the store's texts, the missing and the empty ones left
\* out, lower-cased and stripped
ServerBlacklist(store, match) ==
    IF match
    THEN { NormText(t) : t \in { u \in store : u # NullText /\ u # <<>> } }
    ELSE {}

\* what the blacklist store may hold
BlacklistStores == SUBSET { T_subscribe_raw, T_blank, NullText }

BlacklistPool == { T_subscribe, T_subscribe_raw, T_sub, T_good, NullText }

BlacklistBatches == { MkFrame(t) : t \in SeqsUpTo(BlacklistPool, MaxBatch) }

BlacklistConfigs ==
    { DefaultConfig, [DefaultConfig EXCEPT !.gates = GateNames \ ShapeGates] }
    \cup { SmallConfig(g, 85) :
             g \in { GateNames, { "blacklist_match" }, {},
                     GateNames \ { "blacklist_match" } } }

InitBlacklist ==
    /\ InitWith(BlacklistBatches, BlacklistConfigs,
                { ServerBlacklist(st, m) : st \in BlacklistStores, m \in BOOLEAN },
                Envs)
    /\ \E st \in BlacklistStores :
          blacklist_texts = ServerBlacklist(st, "blacklist_match" \in cfg.gates)

SpecBlacklist == InitBlacklist /\ [][Next]_vars

\* the caller's row i is on the blacklist: its text, lower-cased and trimmed,
\* is in the set
OnBlacklist(i) == PyStrip(PyLower(SeenText(i))) \in blacklist_texts

\* C11 (as the specification states it): with blacklist_match on, a comment
\* whose lower-cased, trimmed text is in the blacklist set ("Subscribe Now"
\* against "subscribe now") is dropped with reason Blacklisted
BlacklistedWheneverListed ==
    pc = "done" =>
        \A i \in 1..Len(input) :
            ("blacklist_match" \in cfg.gates /\ OnBlacklist(i)) =>
                /\ input[i].id \notin Ids(ret[1].retained)
                /\ ReasonOf(input[i].id) = "Blacklisted"

\* C11 (amended): with blacklist_match on, a comment whose lower-cased,
\* trimmed text is in the blacklist set is dropped, with reason Blacklisted
\* if none of the stages before (length, letters, words) is on and rejects
\* it, with the reason of the first of those otherwise; no other comment
\* gets the reason Blacklisted, and the stage changes nothing when the set
\* is empty
BlacklistedWhenReached ==
    /\ [](pc = "done" =>
            \A i \in 1..Len(input) :
                /\ ("blacklist_match" \in cfg.gates /\ OnBlacklist(i)) =>
                      /\ input[i].id \notin Ids(ret[1].retained)
                      /\ ReasonOf(input[i].id) =
                            IF Rejecting(i) \cap (1..3) = {}
                            THEN "Blacklisted"
                            ELSE StageLabel[Least(Rejecting(i) \cap (1..3))]
                /\ ReasonOf(input[i].id) = "Blacklisted" =>
                      "blacklist_match" \in cfg.gates /\ OnBlacklist(i))
    /\ [][(pc = "blacklist_match" /\ blacklist_texts = {}) =>
             (df' = df /\ reasons' = reasons)]_vars

\* C11 happens: every gate on, "subscribe now" in the set, and the comment
\* "Subscribe Now" returned as Blacklisted
SubscribeNowBlacklisted ==
    /\ pc = "done"
    /\ cfg.gates = GateNames
    /\ T_subscribe_norm \in blacklist_texts
    /\ \E i \in 1..Len(input) :
          /\ input[i].text = T_subscribe
          /\ ret[1].reasons[input[i].id] = "Blacklisted"

\* the values of a reason map
Labels(reason_map) == { reason_map[id] : id \in DOMAIN reason_map }

\* C12: every value of the reason map is one of the eleven labels, and the
\* stage that owns the label is enabled
LabelsAreOfEnabledStages ==
    /\ \A l \in Labels(reasons) :
          \E k \in 1..11 : l = StageLabel[k] /\ StageOrder[k] \in cfg.gates
    /\ pc = "done" =>
          \A l \in Labels(ret[1].reasons) :
              \E k \in 1..11 : l = StageLabel[k] /\ StageOrder[k] \in cfg.gates

\* C12 happens: a call with some gates off and others on has returned a
\* reason map with two labels in it
TwoLabelsReturned ==
    /\ pc = "done"
    /\ cfg.gates # GateNames
    /\ Cardinality(Labels(ret[1].reasons)) = 2

\* the position after stage k
PcAfter(k) == IF k = 11 THEN "return" ELSE StageOrder[k + 1]

\* C13: a stage whose gate is off leaves the frame and the reasons as they
\* are and goes on to the next stage; with every gate off the call returns
\* every comment of the input, in order, and an empty reason map
DisabledStagesSkipped ==
    /\ [][\A k \in 1..11 :
             (pc = StageOrder[k] /\ StageOrder[k] \notin cfg.gates) =>
                 /\ df' = df
                 /\ reasons' = reasons
                 /\ pc' = PcAfter(k)]_vars
    /\ [](cfg.gates = {} => pc # "raised")
    /\ [](pc = "done" /\ cfg.gates = {} =>
             /\ [i \in 1..Len(ret[1].retained) |-> ret[1].retained[i].id]
                   = [i \in 1..Len(input) |-> input[i].id]
             /\ ret[1].retained = Prepare(input)
             /\ ret[1].reasons = EmptyReasons)

\* C13 happens: with every gate off a call has returned two comments, one of
\* them a bare timestamp that the stages, were they on, would reject
AllOffReturnedAll ==
    /\ pc = "done"
    /\ cfg.gates = {}
    /\ Len(ret[1].retained) = 2
    /\ \E i \in 1..2 : Rejects(7, ret[1].retained[i].text)

T_abcd == << "a", "b", "c", "d" >>

T_abcde == << "a", "b", "c", "d", "e" >>

T_abcdef == << "a", "b", "c", "d", "e", "f" >>

T_abcde_pad == << " ", "a", "b", "c", "d", "e" >>

LengthPool == { <<>>, T_abcd, T_abcde, T_abcdef, T_abcde_pad, NullText }

LengthBatches == { MkFrame(t) : t \in SeqsUpTo(LengthPool, MaxBatch) }

\* the thresholds of the length stage tried: about the lengths of the pool
LengthThresholds == { 1, 5, 6 }

LengthConfigs ==
    { [SmallConfig(g, 85) EXCEPT !.min_chars_threshold = n] :
        g \in { { "min_chars" }, GateNames, {} }, n \in LengthThresholds }

InitLength == InitWith(LengthBatches, LengthConfigs, { {} }, Envs)

SpecLength == InitLength /\ [][Next]_vars

\* C14 (as the specification states it): with min_chars on and threshold n,
\* a comment whose text is n characters long is not dropped by the length
\* stage, and one whose text is shorter is dropped as Too Short
LengthOfTextDecides ==
    (pc = "done" /\ "min_chars" \in cfg.gates) =>
        \A i \in 1..Len(input) :
            input[i].text # NullText =>
                /\ Len(input[i].text) = cfg.min_chars_threshold =>
                      ReasonOf(input[i].id) # "Too Short"
                /\ Len(input[i].text) < cfg.min_chars_threshold =>
                      ReasonOf(input[i].id) = "Too Short"

\* C14 (amended): the length is that of the text with the white space at
\* both ends trimmed (a missing text has length 0): n characters or more
\* pass the length stage, fewer are dropped as Too Short
TrimmedLengthDecides ==
    /\ [](pc = "done" /\ "min_chars" \in cfg.gates =>
            \A i \in 1..Len(input) :
                /\ Len(SeenText(i)) >= cfg.min_chars_threshold =>
                      ReasonOf(input[i].id) # "Too Short"
                /\ Len(SeenText(i)) < cfg.min_chars_threshold =>
                      ReasonOf(input[i].id) = "Too Short")
    /\ [][(pc = "min_chars" /\ "min_chars" \in cfg.gates) =>
             /\ pc' = "min_alpha"
             /\ \A i \in 1..Len(df) :
                   (df[i].id \in Ids(df')) <=>
                       (Len(df[i].text) >= cfg.min_chars_threshold)]_vars

\* C14 happens: threshold 5, only the length stage on, and of two comments
\* the one of exactly 5 characters is returned and the one of 4 is Too Short
ExactlyFiveKept ==
    /\ pc = "done"
    /\ cfg.gates = { "min_chars" }
    /\ cfg.min_chars_threshold = 5
    /\ Len(input) = 2
    /\ \E i, j \in 1..2 :
          /\ input[i].text = T_abcde
          /\ input[j].text = T_abcd
          /\ ret[1].retained = << input[i] >>
          /\ ret[1].reasons[input[j].id] = "Too Short"

(***************************************************************************)
(* Calls on comments the language and sentiment models tell apart, in      *)
(* runtimes with and without the optional capabilities.                    *)
(***************************************************************************)
CapabilityPool == { T_hola, T_bad, T_odd, T_edge, T_good, T_goodbang, T_Good }

CapabilityBatches == { MkFrame(t) : t \in SeqsUpTo(CapabilityPool, MaxBatch) }

CapabilityConfigs ==
    { SmallConfig(g, dt) :
        g \in { GateNames, { "english_only" }, { "sentiment_filter" },
                { "english_only", "sentiment_filter", "dedup" } },
        dt \in { 85, 100 } }
    \cup { SmallConfig({ "dedup" }, 85), SmallConfig({}, 85) }

InitCapability == InitWith(CapabilityBatches, CapabilityConfigs, { {} }, AllEnvs)

SpecCapability == InitCapability /\ [][Next]_vars

\* C15: the language stage keeps a comment the language model fails on and
\* records no reason for it; the other comments of the frame are judged as
\* ever, by their confidence, and the call goes on
LanguageFailOpen ==
    [][(pc = "english_only" /\ "english_only" \in cfg.gates /\ env.lingua
            /\ df # <<>>) =>
          /\ pc' = "sentiment_filter"
          /\ \A i \in 1..Len(df) :
                IF LinguaConfidence(df[i].text).raises
                THEN /\ df[i].id \in Ids(df')
                     /\ df[i].id \notin DOMAIN reasons'
                ELSE IF LinguaConfidence(df[i].text).conf >= cfg.english_confidence
                THEN df[i].id \in Ids(df')
                ELSE /\ df[i].id \notin Ids(df')
                     /\ df[i].id \in DOMAIN reasons'
                     /\ reasons'[df[i].id] = "Non-English"]_vars

\* C15 happens: of two comments, the one the model fails on is returned and
\* the one it finds not to be English is dropped as Non-English
FailedOneKeptOtherJudged ==
    /\ pc = "done"
    /\ "english_only" \in cfg.gates /\ env.lingua
    /\ Len(input) = 2
    /\ \E i, j \in 1..2 :
          /\ LinguaConfidence(input[i].text).raises
          /\ input[j].text = T_hola
          /\ ret[1].retained = << input[i] >>
          /\ ret[1].reasons[input[j].id] = "Non-English"

\* the capability stage k needs is not there
Missing(k) ==
    CASE k = 9 -> ~env.lingua
      [] k = 10 -> ~env.vader
      [] k = 11 -> ~env.rapidfuzz

\* the name the warning about it goes by
Capability(k) ==
    CASE k = 9 -> "lingua"
      [] k = 10 -> "vader"
      [] k = 11 -> "rapidfuzz"

\* the configuration with the gate of stage k off
GateOff(k) == [cfg EXCEPT !.gates = cfg.gates \ { StageOrder[k] }]

\* the call has ended
Ended == pc \in { "done", "raised" }

\* C16 (as the specification states it): a stage (language, sentiment,
\* dedup) that is on while the capability it needs is missing removes
\* nothing, records no reason, prints a warning (the dedup stage when
\* near-duplicates are asked for) and lets the call go on; the call ends as
\* it would with that stage off
MissingCapabilitySkipsStage ==
    /\ [][\A k \in { 9, 10, 11 } :
             (pc = StageOrder[k] /\ StageOrder[k] \in cfg.gates /\ Missing(k)) =>
                 /\ pc' = PcAfter(k)
                 /\ df' = df
                 /\ reasons' = reasons
                 /\ (k = 11 /\ cfg.dedup_threshold >= 100) \/ Capability(k) \in warned']_vars
    /\ [](Ended =>
            \A k \in { 9, 10, 11 } :
                (StageOrder[k] \in cfg.gates /\ Missing(k)) =>
                    ret[1] = RunUnder(GateOff(k)))

\* C16 (amended): so it is for the language and the sentiment stage; of the
\* dedup stage only the near-duplicate pass needs fuzzy matching: without
\* it the stage still removes the exact duplicates, as Duplicate, and the
\* call ends as it would with a dedup_threshold of 100
MissingCapabilitySkipsItsPass ==
    /\ [][\A k \in { 9, 10 } :
             (pc = StageOrder[k] /\ StageOrder[k] \in cfg.gates /\ Missing(k)) =>
                 /\ pc' = PcAfter(k)
                 /\ df' = df
                 /\ reasons' = reasons
                 /\ Capability(k) \in warned']_vars
    /\ [][(pc = "dedup" /\ "dedup" \in cfg.gates /\ Missing(11)) =>
             /\ pc' = "return"
             /\ \A i \in 1..Len(df) :
                   IF HasExactCopy(df, i)
                   THEN /\ df[i].id \notin Ids(df')
                        /\ df[i].id \in DOMAIN reasons'
                        /\ reasons'[df[i].id] = "Duplicate"
                   ELSE /\ df[i].id \in Ids(df')
                        /\ df[i].id \notin DOMAIN reasons'
             /\ cfg.dedup_threshold < 100 => "rapidfuzz" \in warned']_vars
    /\ [](Ended =>
            /\ \A k \in { 9, 10 } :
                  (StageOrder[k] \in cfg.gates /\ Missing(k)) =>
                      ret[1] = RunUnder(GateOff(k))
            /\ ("dedup" \in cfg.gates /\ Missing(11)) =>
                  ret[1] = FilterLowValue(input, [cfg EXCEPT !.dedup_threshold = 100],
                                          blacklist_texts,
                                          [env EXCEPT !.rapidfuzz = TRUE]))

\* C16 happens: with none of the three capabilities and the three stages
\* on, a call has warned of each and returned a comment that is not English
\* and one of negative sentiment
AllThreeWarnedAndKept ==
    /\ pc = "done"
    /\ ~env.lingua /\ ~env.vader /\ ~env.rapidfuzz
    /\ { "english_only", "sentiment_filter", "dedup" } \subseteq cfg.gates
    /\ warned = { "lingua", "vader", "rapidfuzz" }
    /\ Len(ret[1].retained) = 2
    /\ \E i, j \in 1..2 :
          /\ Rejects(9, ret[1].retained[i].text)
          /\ Rejects(10, ret[1].retained[j].text)

(***************************************************************************)
(* The server's analysis job, up to the keyword arguments it builds for    *)
(* filter_low_value.  A settings value is [kind, v]: an integer ("int"), a *)
(* float in hundredths ("float"), the floats inf, -inf and nan, a string   *)
(* that spells no number ("text") or null.  What the request carried is    *)
(* [shape, items]: a JSON object ("dict") with its items, or a value that  *)
(* is truthy and no object ("list").                                       *)
(***************************************************************************)
\* _FILTER_BOOL_KEYS
FilterBoolKeys ==
    { "min_chars", "min_alpha", "min_words", "emoji_only", "url_only",
      "timestamp_only", "repeat_char", "blacklist_match", "english_only",
      "sentiment_filter", "dedup" }

\* _FILTER_NUM_KEYS: the type and the bounds (floats in hundredths)
FilterNumKeys ==
    [min_chars_threshold |-> [typ |-> "int", lo |-> 1, hi |-> 50],
     min_words_threshold |-> [typ |-> "int", lo |-> 1, hi |-> 10],
     sentiment_threshold |-> [typ |-> "float", lo |-> -100, hi |-> 0],
     english_confidence  |-> [typ |-> "float", lo |-> 0, hi |-> 100],
     dedup_threshold     |-> [typ |-> "int", lo |-> 50, hi |-> 100]]

Min(a, b) == IF a <= b THEN a ELSE b

\* bool(v)
Truthy(val) ==
    CASE val.kind \in { "int", "float" } -> val.v # 0
      [] val.kind = "null" -> FALSE
      [] OTHER -> TRUE

\* int(x) of a float of h hundredths: towards zero
TruncHundredths(h) == IF h >= 0 THEN h \div 100 ELSE -((-h) \div 100)

\* typ(raw_settings[key]) and max(lo, min(hi, val)): the value stored ("ok"),
\* a TypeError or ValueError, which the loop passes over ("caught"), or an
\* OverflowError, which nothing catches ("uncaught"); min(hi, nan) is hi
Coerce(k, val) ==
    LET clamp(x) == [out |-> "ok", v |-> Max(k.lo, Min(k.hi, x))]
    IN  IF k.typ = "int"
        THEN CASE val.kind = "int" -> clamp(val.v)
               [] val.kind = "float" -> clamp(TruncHundredths(val.v))
               [] val.kind \in { "inf", "-inf" } -> [out |-> "uncaught", v |-> 0]
               [] OTHER -> [out |-> "caught", v |-> 0]
        ELSE CASE val.kind = "int" -> clamp(100 * val.v)
               [] val.kind = "float" -> clamp(val.v)
               [] val.kind \in { "inf", "nan" } -> [out |-> "ok", v |-> k.hi]
               [] val.kind = "-inf" -> [out |-> "ok", v |-> k.lo]
               [] OTHER -> [out |-> "caught", v |-> 0]

\* the numeric keys of the settings
NumKeysOf(raw) == DOMAIN raw.items \cap DOMAIN FilterNumKeys

\* building the keyword arguments ends in an exception nothing catches:
\* .items() of a value that is no object, or int() of an infinite float
BuildRaises(raw) ==
    \/ raw.shape # "dict"
    \/ \E k \in NumKeysOf(raw) : Coerce(FilterNumKeys[k], raw.items[k]).out = "uncaught"

\* filter_kwargs
FilterKwargs(raw) ==
    LET bools == DOMAIN raw.items \cap FilterBoolKeys
        nums == { k \in NumKeysOf(raw) :
                    Coerce(FilterNumKeys[k], raw.items[k]).out = "ok" }
    IN  [k \in bools \cup nums |->
            IF k \in bools
            THEN Truthy(raw.items[k])
            ELSE Coerce(FilterNumKeys[k], raw.items[k]).v]

Val(kind, v) == [kind |-> kind, v |-> v]

SettingValues ==
    { Val("int", n) : n \in { -5, 0, 7, 51, 100 } }
    \cup { Val("float", h) : h \in { -150, -80, 50, 790, 12000 } }
    \cup { Val(x, 0) : x \in { "inf", "-inf", "nan", "text", "null" } }

SettingKeys ==
    { "min_chars", "bogus", "min_chars_threshold", "min_words_threshold",
      "sentiment_threshold", "english_confidence", "dedup_threshold" }

\* the most keys of a settings object
MaxSettings == 2

SettingObjects ==
    UNION { [K -> SettingValues] :
              K \in { S \in SUBSET SettingKeys : Cardinality(S) <= MaxSettings } }

\* data.get("filter_settings") of a request
RequestSettings ==
    { [shape |-> "dict", items |-> f] : f \in SettingObjects }
    \cup { [shape |-> "list", items |-> << >>], [shape |-> "none", items |-> << >>] }

\* api_analyze: filter_settings = data.get("filter_settings") or {}; the job
\* is registered and its thread started
Submit ==
    /\ job = "none"
    /\ \E r \in RequestSettings :
          raw_settings' = IF r.shape = "none"
                          THEN [shape |-> "dict", items |-> << >>]
                          ELSE r
    /\ job' = "queued"
    /\ registry' = [present |-> TRUE, status |-> "running", report_path |-> "none",
                    finished_at |-> FALSE]
    /\ queue' = <<>>
    /\ UNCHANGED << input, cfg, blacklist_texts, env, pc, df, reasons, ret, prev,
                    calls, warned, filter_kwargs, other, dashboard >>

\* _run_analysis_inner up to its try block: the keyword arguments are built,
\* or the thread ends in the exception (no message, no sentinel on the queue)
BuildKwargs ==
    /\ job = "queued"
    /\ IF BuildRaises(raw_settings)
       THEN job' = "crashed" /\ UNCHANGED filter_kwargs
       ELSE job' = "built" /\ filter_kwargs' = FilterKwargs(raw_settings)
    /\ UNCHANGED << input, cfg, blacklist_texts, env, pc, df, reasons, ret, prev,
                    calls, warned, raw_settings, other, dashboard, registry, queue >>

InitSettings ==
    /\ InitCall({ <<>> }, { DefaultConfig }, { {} }, { Env(TRUE, TRUE, TRUE) })
    /\ NoJob
    /\ NoOther
    /\ Quiet

NextSettings == Submit \/ BuildKwargs

SpecSettings == InitSettings /\ [][NextSettings]_vars

\* the keyword arguments are clean: recognised keys only, every threshold
\* within its bounds, and a finite number that is out of them at the nearest
Sanitised ==
    /\ DOMAIN filter_kwargs \subseteq FilterBoolKeys \cup DOMAIN FilterNumKeys
    /\ \A k \in DOMAIN filter_kwargs \cap DOMAIN FilterNumKeys :
          /\ FilterNumKeys[k].lo <= filter_kwargs[k]
          /\ filter_kwargs[k] <= FilterNumKeys[k].hi
          /\ raw_settings.items[k].kind \in { "int", "float" } =>
                LET given == raw_settings.items[k]
                    x == IF given.kind = "int"
                         THEN IF FilterNumKeys[k].typ = "int"
                              THEN given.v ELSE 100 * given.v
                         ELSE IF FilterNumKeys[k].typ = "int"
                              THEN TruncHundredths(given.v) ELSE given.v
                IN  /\ x < FilterNumKeys[k].lo => filter_kwargs[k] = FilterNumKeys[k].lo
                    /\ x > FilterNumKeys[k].hi => filter_kwargs[k] = FilterNumKeys[k].hi
                    /\ (FilterNumKeys[k].lo <= x /\ x <= FilterNumKeys[k].hi) =>
                          filter_kwargs[k] = x

\* C17 (as the specification states it): whatever the settings, the job is
\* not lost to them, and the keyword arguments built are clean
SettingsNeverRejected ==
    /\ job # "crashed"
    /\ job = "built" => Sanitised

\* the keyword arguments are clean whenever the job gets to build them
SanitisedWhenBuilt == job = "built" => Sanitised

\* C18 (as the specification states it): a comment whose text is missing
\* makes no call fail, and with min_chars on it is dropped as Too Short
MissingTextNeverFails ==
    (\E i \in 1..Len(input) : input[i].text = NullText) =>
        /\ pc # "raised"
        /\ (pc = "done" /\ "min_chars" \in cfg.gates) =>
              \A i \in 1..Len(input) :
                  input[i].text = NullText => ReasonOf(input[i].id) = "Too Short"

\* the same of the calls that return
MissingTextTooShortWhenReturned ==
    (pc = "done" /\ "min_chars" \in cfg.gates) =>
        \A i \in 1..Len(input) :
            input[i].text = NullText => ReasonOf(input[i].id) = "Too Short"

T_time_pad == << " ", "1", ":", "2", "3", " " >>

T_time_long == << "1", "2", ":", "3", "4" >>

T_time_hour == << "1", ":", "0", "2", ":", "0", "3" >>

T_time_short == << "1", ":", "2" >>

T_time_wide == << "1", "2", "3", ":", "4", "5" >>

T_time_said == << "a", "t", " ", "1", ":", "2", "3" >>

T_time_twice == << "1", ":", "2", "3", " ", "1", ":", "2", "3" >>

TimestampPool ==
    { T_time, T_time_pad, T_time_long, T_time_hour, T_time_short, T_time_wide,
      T_time_said, T_time_twice, T_check }

TimestampBatches == { MkFrame(t) : t \in SeqsUpTo(TimestampPool, MaxBatch) }

TimestampConfigs ==
    { DefaultConfig }
    \cup { SmallConfig(g, 85) :
             g \in { { "timestamp_only" }, GateNames, GateNames \ ShapeGates, {} } }

InitTimestamp == InitWith(TimestampBatches, TimestampConfigs, { {} }, Envs)

SpecTimestamp == InitTimestamp /\ [][Next]_vars

\* t is one or more digits
IsNumber(t) == Len(t) >= 1 /\ \A i \in 1..Len(t) : t[i] \in Digits

\* t is minutes:seconds, one or two digits and two digits
IsMinutesSeconds(t) ==
    \E m \in { 1, 2 } :
        /\ Len(t) = m + 3
        /\ IsNumber(SubSeq(t, 1, m))
        /\ t[m + 1] = ":"
        /\ IsNumber(SubSeq(t, m + 2, m + 3))

\* t is a bare timecode: minutes:seconds, or hours: and minutes:seconds
IsTimecode(t) ==
    \/ IsMinutesSeconds(t)
    \/ \E h \in 1..Len(t) :
          /\ IsNumber(SubSeq(t, 1, h))
          /\ h < Len(t) /\ t[h + 1] = ":"
          /\ IsMinutesSeconds(SubSeq(t, h + 2, Len(t)))

StageAt(at, s, c, bl, e) ==
    CASE at = "min_chars" -> StageMinChars(s, c)
      [] at = "min_alpha" -> StageMinAlpha(s, c)
      [] at = "min_words" -> StageMinWords(s, c)
      [] at = "blacklist_match" -> StageBlacklist(s, c, bl)
      [] at = "emoji_only" -> StageEmojiOnly(s, c)
      [] at = "url_only" -> StageUrlOnly(s, c)
      [] at = "timestamp_only" -> StageTimestamp(s, c)
      [] at = "repeat_char" -> StageRepeatChar(s, c)
      [] at = "english_only" -> StageEnglish(s, c, e)
      [] at = "sentiment_filter" -> StageSentiment(s, c, e)
      [] at = "dedup" -> StageDedup(s, c, e)

\* the statement after the stage at
NextPc(at) ==
    CASE at = "min_chars" -> "min_alpha"
      [] at = "min_alpha" -> "min_words"
      [] at = "min_words" -> "blacklist_match"
      [] at = "blacklist_match" -> "emoji_only"
      [] at = "emoji_only" -> "url_only"
      [] at = "url_only" -> "timestamp_only"
      [] at = "timestamp_only" -> "repeat_char"
      [] at = "repeat_char" -> "english_only"
      [] at = "english_only" -> "sentiment_filter"
      [] at = "sentiment_filter" -> "dedup"
      [] at = "dedup" -> "return"

FirstThread == << input, cfg, blacklist_texts, pc, df, reasons, ret, prev, calls, warned >>

\* a faulty variant of the second thread's call: the reasons dict is the one
\* the first thread's call is filling
OtherCallSharedReasons ==
    /\ other.pc = "idle"
    /\ other' = [other EXCEPT !.pc = "min_chars",
                              !.df = Entry(other.input).df,
                              !.reasons = reasons,
                              !.input = CallerFrame(other.input)]
    /\ UNCHANGED << FirstThread, env, server, dashboard >>

\* the second thread calls: its own copy, its own reasons = {}
OtherCall ==
    /\ other.pc = "idle"
    /\ other' = [other EXCEPT !.pc = "min_chars",
                              !.df = Entry(other.input).df,
                              !.reasons = Entry(other.input).reasons,
                              !.input = CallerFrame(other.input)]
    /\ UNCHANGED << FirstThread, env, server, dashboard >>

\* the second thread runs the stage it is at
OtherStage ==
    /\ other.pc \in GateNames
    /\ LET s == StageAt(other.pc,
                        [df |-> other.df, reasons |-> other.reasons, raised |-> FALSE],
                        other.cfg, other.blacklist_texts, env)
       IN  other' = [other EXCEPT !.pc = IF s.raised THEN "raised" ELSE NextPc(other.pc),
                                  !.df = s.df,
                                  !.reasons = s.reasons,
                                  !.ret = IF s.raised THEN << Raised >> ELSE @]
    /\ UNCHANGED << FirstThread, env, server, dashboard >>

\* the second thread returns
OtherReturn ==
    /\ other.pc = "return"
    /\ other' = [other EXCEPT !.pc = "done",
                              !.ret = << Returned(other.df, other.reasons) >>]
    /\ UNCHANGED << FirstThread, env, server, dashboard >>

ThreadPool == { T_hi, T_good, T_goodbang }

ThreadBatches == { MkFrame(t) : t \in SeqsUpTo(ThreadPool, MaxBatch) }

\* the comments of another video, under their own ids
OtherIds == << "d1", "d2" >>

OtherVideo(texts) ==
    [i \in 1..Len(texts) |-> [MkFrame(texts)[i] EXCEPT !.id = OtherIds[i]]]

\* the second thread's frames: the same video again, another video, no comment
OtherBatches ==
    { MkFrame(<< T_bad, T_good >>), OtherVideo(<< T_Good, T_good >>), <<>> }

ThreadConfigs == { SmallConfig(GateNames, 85), SmallConfig({ "sentiment_filter", "dedup" }, 85) }

ThreadEnvs == { Env(TRUE, TRUE, TRUE), Env(FALSE, TRUE, FALSE) }

InitThreads ==
    /\ InitCall(ThreadBatches, ThreadConfigs, { {} }, ThreadEnvs)
    /\ NoJob
    /\ other \in { Invocation(f, c, {}) : f \in OtherBatches, c \in ThreadConfigs }
    /\ Quiet

NextThreads == Next \/ OtherCall \/ OtherStage \/ OtherReturn

SpecThreads == InitThreads /\ [][NextThreads]_vars

\* what a call on these arguments gives when it runs alone
Alone(frame, c, bl) == FilterLowValue(frame, c, bl, env)

\* C19: two calls in two threads, their stages interleaved in any order, each
\* end as the call ends when it runs alone, with the same retained comments
\* and the same reason map, and a step of one thread leaves the other
\* thread's frame, reasons and result as they were
ThreadsDoNotInterfere ==
    /\ [](pc \in { "done", "raised" } =>
            ret = << Alone(input, cfg, blacklist_texts) >>)
    /\ [](other.pc \in { "done", "raised" } =>
            other.ret = << Alone(other.input, other.cfg, other.blacklist_texts) >>)
    /\ [][/\ other' # other => FirstThread' = FirstThread
          /\ FirstThread' # FirstThread => other' = other]_vars

\* C19 happens: both calls are under way at once, on different frames, each
\* has run its stages and removed a comment, and each is about to return
\* what it returns alone
BothThreadsAboutToReturn ==
    /\ pc = "return"
    /\ other.pc = "return"
    /\ input # other.input
    /\ DOMAIN reasons # {}
    /\ DOMAIN other.reasons # {}
    /\ reasons # other.reasons
    /\ Returned(df, reasons) = Alone(input, cfg, blacklist_texts)
    /\ Returned(other.df, other.reasons) =
           Alone(other.input, other.cfg, other.blacklist_texts)

(***************************************************************************)
(* The repeated-character stage on runs of a letter, of a digit, of a      *)
(* punctuation mark, of a letter outside ASCII (U+00E9), and on the        *)
(* alternation "lolololol".                                                *)
(***************************************************************************)
T_run5 == << "a", "a", "a", "a", "a" >>

T_run4 == << "a", "a", "a", "a" >>

T_run_inside == << "s", "o", " ", "g", "o", "o", "o", "o", "o", "d" >>

T_run_digit == << "x", " ", "1", "1", "1", "1", "1" >>

T_run_case == << "a", "a", "A", "a", "a" >>

T_run_bang == << "w", "o", "w", " ", "!", "!", "!", "!", "!" >>

T_run_accent == << "U+00E9", "U+00E9", "U+00E9", "U+00E9", "U+00E9" >>

T_lol == << "l", "o", "l", "o", "l", "o", "l", "o", "l" >>

T_lol_said == << "h", "a", " ", "l", "o", "l", "o", "l", "o", "l", "o", "l", " ", "h", "a" >>

RepeatPool ==
    { T_run5, T_run4, T_run_inside, T_run_digit, T_run_case, T_run_bang,
      T_run_accent, T_lol, T_lol_said }

RepeatBatches == { MkFrame(t) : t \in SeqsUpTo(RepeatPool, MaxBatch) }

RepeatConfigs ==
    { DefaultConfig }
    \cup { SmallConfig(g, 85) :
             g \in { { "repeat_char" }, GateNames, GateNames \ ShapeGates, {} } }

InitRepeat == InitWith(RepeatBatches, RepeatConfigs, { {} }, Envs)

SpecRepeat == InitRepeat /\ [][Next]_vars

\* t holds n or more copies of the character c in a row
HasRunOf(t, c, n) ==
    \E i \in 1..Len(t) :
        /\ i + n - 1 <= Len(t)
        /\ SubSeq(t, i, i + n - 1) = [k \in 1..n |-> c]

\* some ASCII letter or digit stands five or more times in a row in t
HasAlnumRun(t) == \E c \in AsciiLetters \cup Digits : HasRunOf(t, c, 5)

LolCaught ==
    (pc = "done" /\ "repeat_char" \in cfg.gates) =>
        \A i \in 1..Len(input) :
            (input[i].text \in { T_lol, T_lol_said } /\ Rejecting(i) \cap (1..7) = {})
                => ReasonOf(input[i].id) = "Repeated Chars"

\* C23: the sentiment stage removes, with reason Negative Sentiment, the
\* comments before it whose compound score is at most sentiment_threshold,
\* the score equal to the threshold among them, and no others; the language
\* stage removes, with reason Non-English, the comments before it whose
\* English confidence is below english_confidence, and no others: a
\* confidence equal to the threshold is kept
ThresholdComparisons ==
    /\ [][(pc = "sentiment_filter" /\ "sentiment_filter" \in cfg.gates /\ env.vader
           /\ df # <<>>) =>
             \A i \in 1..Len(df) :
                 IF VaderCompound(df[i].text) <= cfg.sentiment_threshold
                 THEN /\ df[i].id \notin Ids(df')
                      /\ df[i].id \in DOMAIN reasons'
                      /\ reasons'[df[i].id] = "Negative Sentiment"
                 ELSE /\ df[i].id \in Ids(df')
                      /\ df[i].id \notin DOMAIN reasons']_vars
    /\ [][(pc = "english_only" /\ "english_only" \in cfg.gates /\ env.lingua
           /\ df # <<>>) =>
             \A i \in 1..Len(df) :
                 ~LinguaConfidence(df[i].text).raises =>
                     IF LinguaConfidence(df[i].text).conf < cfg.english_confidence
                     THEN /\ df[i].id \notin Ids(df')
                          /\ df[i].id \in DOMAIN reasons'
                          /\ reasons'[df[i].id] = "Non-English"
                     ELSE /\ df[i].id \in Ids(df')
                          /\ df[i].id \notin DOMAIN reasons']_vars

\* C23 happens: the comment whose score and confidence both equal the
\* thresholds passed the language stage and was dropped as Negative
\* Sentiment; the comment of lower confidence was dropped as Non-English
EqualScoreDroppedEqualConfidenceKept ==
    /\ pc = "done"
    /\ { "english_only", "sentiment_filter" } \subseteq cfg.gates
    /\ env.lingua /\ env.vader
    /\ Len(input) = 2
    /\ input[1].text = T_edge
    /\ input[2].text = T_hola
    /\ LinguaConfidence(T_edge).conf = cfg.english_confidence
    /\ VaderCompound(T_edge) = cfg.sentiment_threshold
    /\ ret[1].reasons[input[1].id] = "Negative Sentiment"
    /\ ret[1].reasons[input[2].id] = "Non-English"

(***************************************************************************)
(* CommentStore.  A store is its cache (None until the first access, then  *)
(* the list of comment dicts) and its parquet file, here the list of rows  *)
(* the file holds (none when there is no file).  A comment is its id and   *)
(* its like_count, which a caller may give as an int or as a numeral in a  *)
(* string; the file's like_count column is int.  Every write either        *)
(* succeeds or fails (to_parquet or os.replace raising).                   *)
(***************************************************************************)
IntLike(v) == [typ |-> "int", val |-> v]

StrLike(v) == [typ |-> "str", val |-> v]

Comment(id, like) == [id |-> id, like_count |-> like]

\* pd.to_numeric(col, errors="coerce").fillna(0).astype(int) on one value
ToInt(like) == IntLike(like.val)

\* _to_df: the rows of the frame that is written
ToDf(data) == [i \in 1..Len(data) |-> [data[i] EXCEPT !.like_count = ToInt(@)]]

\* _from_df: the dicts of the rows read
FromDf(rows) == [i \in 1..Len(rows) |-> [rows[i] EXCEPT !.like_count = ToInt(@)]]

\* _load_from_disk
LoadFromDisk(st) == FromDf(st.disk)

\* _get_data: the store with its cache loaded
GetData(st) ==
    IF st.cache.loaded
    THEN st
    ELSE [st EXCEPT !.cache = [loaded |-> TRUE, data |-> LoadFromDisk(st)]]

\* _save_and_cache: the file replaced and the cache set, or nothing changed
\* and the exception raised again
SaveAndCache(st, data, ok) ==
    IF ok
    THEN [store |-> [cache |-> [loaded |-> TRUE, data |-> data], disk |-> ToDf(data)],
          raised |-> FALSE, wrote |-> TRUE]
    ELSE [store |-> st, raised |-> TRUE, wrote |-> FALSE]

\* what a call leaves and gives: the store, whether it raised, whether it
\* wrote, and the value returned (True is 1, False and None are 0)
Outcome(w, out) == [store |-> w.store, raised |-> w.raised, wrote |-> w.wrote,
                    out |-> IF w.raised THEN 0 ELSE out]

NoWrite(st, out) == [store |-> st, raised |-> FALSE, wrote |-> FALSE, out |-> out]

StoreIdsOf(data) == { data[i].id : i \in 1..Len(data) }

\* CommentStore.add
StoreAdd(st, c, ok) ==
    LET g == GetData(st)
    IN  IF c.id \in StoreIdsOf(g.cache.data)
        THEN NoWrite(g, 0)
        ELSE Outcome(SaveAndCache(g, << c >> \o g.cache.data, ok), 1)

\* CommentStore.add_many
StoreAddMany(st, comments, ok) ==
    IF comments = <<>>
    THEN NoWrite(st, 0)
    ELSE LET g == GetData(st)
             existing_ids == StoreIdsOf(g.cache.data)
             new == SelectSeq(comments, LAMBDA c : c.id \notin existing_ids)
         IN  IF new = <<>>
             THEN NoWrite(g, 0)
             ELSE Outcome(SaveAndCache(g, new \o g.cache.data, ok), Len(new))

\* CommentStore.remove
StoreRemove(st, comment_id, ok) ==
    LET g == GetData(st)
        filtered == SelectSeq(g.cache.data, LAMBDA c : c.id # comment_id)
    IN  IF Len(filtered) = Len(g.cache.data)
        THEN NoWrite(g, 0)
        ELSE Outcome(SaveAndCache(g, filtered, ok), 1)

\* CommentStore.clear
StoreClear(st, ok) == Outcome(SaveAndCache(st, <<>>, ok), 0)

\* CommentStore.save
StoreSave(st, data, ok) == Outcome(SaveAndCache(st, data, ok), 0)

\* CommentStore.all / load
StoreAll(st) == GetData(st).cache.data

\* the most entries a store holds
MaxStore == 3

StoreIds == { "a", "b" }

StoreComments == { Comment(id, like) : id \in StoreIds, like \in { IntLike(3), StrLike(12) } }

\* the longest list a caller passes
MaxGiven == 2

GivenLists == SeqsUpTo(StoreComments, MaxGiven)

\* the lists of rows without two rows of one id
UniqueLists ==
    { d \in SeqsUpTo({ Comment(id, IntLike(3)) : id \in StoreIds }, MaxGiven) :
        \A i, j \in 1..Len(d) : d[i].id = d[j].id => i = j }

\* the store the calls are made on
TestedStore == "saved"

filter ==
    << input, cfg, blacklist_texts, env, pc, df, reasons, ret, prev, calls, warned,
       server, other >>

\* a call on the tested store ends with outcome r
StoreCall(op, r) ==
    /\ Len(r.store.cache.data) <= MaxStore
    /\ stores' = [stores EXCEPT ![TestedStore] = r.store]
    /\ last' = [op |-> op, store |-> TestedStore, raised |-> r.raised,
                wrote |-> r.wrote, out |-> r.out]
    /\ UNCHANGED << filter, parquet, scoring >>

Add ==
    \E c \in StoreComments, ok \in BOOLEAN :
        StoreCall("add", StoreAdd(stores[TestedStore], c, ok))

AddMany ==
    \E comments \in GivenLists, ok \in BOOLEAN :
        StoreCall("add_many", StoreAddMany(stores[TestedStore], comments, ok))

Remove ==
    \E id \in StoreIds, ok \in BOOLEAN :
        StoreCall("remove", StoreRemove(stores[TestedStore], id, ok))

Clear == \E ok \in BOOLEAN : StoreCall("clear", StoreClear(stores[TestedStore], ok))

Save ==
    \E data \in GivenLists, ok \in BOOLEAN :
        StoreCall("save", StoreSave(stores[TestedStore], data, ok))

\* the server starts again: every store is constructed anew on its file
Restart ==
    /\ stores' = [n \in StoreNames |->
                    [stores[n] EXCEPT !.cache = [loaded |-> FALSE, data |-> <<>>]]]
    /\ last' = NoCall
    /\ UNCHANGED << filter, parquet, scoring >>

\* the tested store's file holds rows of unique ids, nothing is cached
InitStore ==
    /\ InitCall({ <<>> }, { DefaultConfig }, { {} }, { Env(TRUE, TRUE, TRUE) })
    /\ NoJob
    /\ NoOther
    /\ \E d \in UniqueLists :
          stores = [n \in StoreNames |->
                      IF n = TestedStore THEN [NewStore EXCEPT !.disk = d] ELSE NewStore]
    /\ last = NoCall
    /\ parquet = {}
    /\ NoScoring

NextStoreOps == Add \/ AddMany \/ Remove \/ Clear \/ Restart

\* add, add_many, remove and clear
SpecStoreOps == InitStore /\ [][NextStoreOps]_vars

NextStore == NextStoreOps \/ Save

\* every mutating call, save among them
SpecStore == InitStore /\ [][NextStore]_vars

\* no two entries of the list share an id
UniqueIds(data) == \A i, j \in 1..Len(data) : data[i].id = data[j].id => i = j

\* C24 (as the specification states it): from a store of unique ids, after
\* any add, add_many, remove and clear calls no two entries of the store
\* share an id, and add_many returns the number of entries it added
StoreIdsStayUnique ==
    /\ [](UniqueIds(stores[TestedStore].cache.data) /\ UniqueIds(stores[TestedStore].disk))
    /\ [][(last'.op = "add_many" /\ last'.wrote) =>
             last'.out = Len(StoreAll(stores'[TestedStore]))
                         - Len(StoreAll(stores[TestedStore]))]_vars

\* what holds of add_many: a list without a repeated id leaves the ids
\* unique, and the number returned is the number of entries added
AddManyOfUniqueKeepsUnique ==
    [][last'.op = "add_many" =>
          /\ last'.wrote =>
                last'.out = Len(StoreAll(stores'[TestedStore]))
                            - Len(StoreAll(stores[TestedStore]))
          /\ (UniqueIds(StoreAll(stores[TestedStore]))
              /\ Len(StoreAll(stores'[TestedStore])) - Len(StoreAll(stores[TestedStore])) <= 1)
                => UniqueIds(StoreAll(stores'[TestedStore]))]_vars

Mutating == { "save", "add", "add_many", "remove", "clear" }

\* C25 (as the specification states it): a mutating call whose write fails
\* raises and leaves the cache's contents and the file as they were; after a
\* mutating call whose write succeeds the cache equals what the file holds
WritesAtomicCacheIsFile ==
    /\ [][(last'.op \in Mutating /\ last'.raised) =>
             /\ StoreAll(stores'[TestedStore]) = StoreAll(stores[TestedStore])
             /\ stores'[TestedStore].disk = stores[TestedStore].disk]_vars
    /\ [](last.op \in Mutating /\ last.wrote =>
             stores[TestedStore].cache.data = stores[TestedStore].disk)

\* what holds of a failed write: the call raises, the contents of the cache
\* and the file are those from before the call
FailedWriteChangesNothing ==
    [][(last'.op \in Mutating /\ last'.raised) =>
          /\ StoreAll(stores'[TestedStore]) = StoreAll(stores[TestedStore])
          /\ stores'[TestedStore].disk = stores[TestedStore].disk]_vars

(***************************************************************************)
(* The dashboard: the saved, blacklist and deleted stores, and the parquet *)
(* of one report, which holds the comments of a video that are not yet     *)
(* classified (their ids).  Every handler runs under _store_lock or makes  *)
(* one store call, so a handler is one step; the writes succeed.           *)
(***************************************************************************)
VideoIds == { "a", "b" }

VideoComment(id) == Comment(id, IntLike(3))

\* the ids a store holds
Held(n) == StoreIdsOf(StoreAll(stores[n]))

\* store.add for each comment of the list, in its order
RECURSIVE AddEach(_, _)
AddEach(st, comments) ==
    IF comments = <<>>
    THEN GetData(st)
    ELSE AddEach(StoreAdd(st, Head(comments), TRUE).store, Tail(comments))

\* a handler ends: the stores and the parquet it leaves
Handled(op, n, after, pq) ==
    /\ stores' = after
    /\ parquet' = pq
    /\ last' = [op |-> op, store |-> n, raised |-> FALSE, wrote |-> TRUE, out |-> 0]
    /\ UNCHANGED << filter, scoring >>

\* _move_exclusive, as api_comment_save, api_comment_blacklist and
\* api_comment_delete call it: the id is removed from the three stores and
\* from the parquet, and the comment is added to dest_store
MoveExclusive ==
    \E cid \in VideoIds, dest \in StoreNames :
        LET removed == [n \in StoreNames |-> StoreRemove(stores[n], cid, TRUE).store]
        IN  Handled("move_exclusive", dest,
                    [removed EXCEPT ![dest] = StoreAdd(@, VideoComment(cid), TRUE).store],
                    parquet \ { cid })

\* api_saved_delete, api_blacklist_delete, api_deleted_delete: store.remove
StoreDelete ==
    \E cid \in VideoIds, n \in StoreNames :
        Handled("remove", n,
                [stores EXCEPT ![n] = StoreRemove(@, cid, TRUE).store], parquet)

\* api_blacklist_clear and api_saved_delete_all: every comment of the store is
\* added to the deleted store, then the store is cleared
MoveAllToDeleted ==
    \E n \in { "blacklist", "saved" } :
        Handled("move_all", n,
                [stores EXCEPT !["deleted"] = AddEach(@, StoreAll(stores[n])),
                               ![n] = StoreClear(@, TRUE).store],
                parquet)

\* api_deleted_clear
DeletedClear ==
    Handled("clear", "deleted",
            [stores EXCEPT !["deleted"] = StoreClear(@, TRUE).store], parquet)

\* the ids of a set as a list of comments, in the parquet's order
RECURSIVE Rows(_)
Rows(ids) ==
    IF ids = {}
    THEN <<>>
    ELSE LET id == CHOOSE x \in ids : \A y \in ids : x = "a" \/ y # "a"
         IN  << VideoComment(id) >> \o Rows(ids \ { id })

\* api_report_delete: the parquet's comments that are in no store go to the
\* store of the disposition, and the report's folder is removed
ReportDelete ==
    /\ parquet # {}
    /\ \E dest \in { "blacklist", "deleted" } :
          LET classified_ids == UNION { Held(n) : n \in StoreNames }
          IN  Handled("report_delete", dest,
                      [stores EXCEPT ![dest] = AddEach(@, Rows(parquet \ classified_ids))],
                      {})

\* _run_analysis_inner from the filter on: the retained comments are the
\* report's parquet, the others go to the blacklist store with add_many
AutoBlacklist ==
    \E low \in SUBSET VideoIds :
        Handled("analysis", "blacklist",
                [stores EXCEPT !["blacklist"] = StoreAddMany(@, Rows(low), TRUE).store],
                VideoIds \ low)

InitDashboard ==
    /\ InitCall({ <<>> }, { DefaultConfig }, { {} }, { Env(TRUE, TRUE, TRUE) })
    /\ NoJob
    /\ NoOther
    /\ Quiet

NextDashboard ==
    \/ MoveExclusive
    \/ StoreDelete
    \/ MoveAllToDeleted
    \/ DeletedClear
    \/ ReportDelete
    \/ AutoBlacklist
    \/ Restart

SpecDashboard == InitDashboard /\ [][NextDashboard]_vars

\* the stores that hold the id
Owners(id) == { n \in StoreNames : id \in Held(n) }

\* C27 (as the specification states it): after _move_exclusive the comment's
\* id is in the destination store and in neither of the other two, and after
\* any dashboard operations no id is in more than one of the three stores
SingleOwnership ==
    /\ [](\A id \in VideoIds : Cardinality(Owners(id)) <= 1)
    /\ [][last'.op = "move_exclusive" =>
             \E id \in VideoIds :
                 /\ Owners(id)' = { last'.store }
                 /\ \A o \in VideoIds \ { id } : Owners(o)' = Owners(o)]_vars

\* what holds of _move_exclusive: the id it moved is in the destination
\* store and in no other, and the other ids are where they were
MoveExclusiveOwnsAlone ==
    [][last'.op = "move_exclusive" =>
          \E id \in VideoIds :
              /\ Owners(id)' = { last'.store }
              /\ \A o \in VideoIds \ { id } : Owners(o)' = Owners(o)]_vars

(***************************************************************************)
(* AI scoring of one report.  info is the claude_batch block of the        *)
(* report's _info.json; batches are the batches the Batches API was given, *)
(* a batch's id being its position; unscored says whether the report's     *)
(* parquet has a comment without a rating.  The server is threaded: submit *)
(* requests run side by side with each other and with the poller.  A       *)
(* request reads the block under _info_json_lock, releases the lock,       *)
(* submits, and takes the lock again to write; the aggregate request reads *)
(* and writes without the lock.  One poll at a time runs (_poll_lock).     *)
(***************************************************************************)
\* the request threads
RequestIds == { 1, 2 }

MaxBatches == 3

RequestIdle == [pc |-> "idle", kind |-> "report", existing |-> NoBlock, batch |-> 0]

Processing == { b \in 1..Len(batches) : batches[b].state = "processing" }

\* batch_scorer.submit_batch succeeding: the API has one more batch
Submitted(by) == Append(batches, [state |-> "processing", by |-> by])

\* api_ai_score_submit and api_ai_score_aggregate_submit, the read: a block
\* that is in_progress ends the request (the block is returned, the report
\* is skipped)
SubmitCheck ==
    \E r \in RequestIds, k \in { "report", "aggregate" } :
        /\ requests[r].pc \in { "idle", "returned", "failed" }
        /\ requests' = [requests EXCEPT ![r] =
                          [pc |-> IF info.status = "in_progress" THEN "returned" ELSE "checked",
                           kind |-> k, existing |-> info, batch |-> 0]]
        /\ UNCHANGED << filter, stores, last, parquet, info, batches, poller, unscored >>

\* the parquet is read; with nothing left to score the request ends, else the
\* batch is submitted, or submit_batch raises
SubmitBatch ==
    \E r \in RequestIds, ok \in BOOLEAN :
        /\ requests[r].pc = "checked"
        /\ IF ~unscored /\ (requests[r].kind = "aggregate"
                            \/ requests[r].existing.status = "ended")
           THEN /\ requests' = [requests EXCEPT ![r].pc = "returned"]
                /\ UNCHANGED batches
           ELSE IF ok
           THEN /\ Len(batches) < MaxBatches
                /\ batches' = Submitted("submit")
                /\ requests' = [requests EXCEPT ![r].pc = "submitted",
                                                ![r].batch = Len(batches) + 1]
           ELSE /\ requests' = [requests EXCEPT ![r].pc = "failed"]
                /\ UNCHANGED batches
        /\ UNCHANGED << filter, stores, last, parquet, info, poller, unscored >>

\* the new block is written: in_progress, retry_count 0
SubmitWrite ==
    \E r \in RequestIds :
        /\ requests[r].pc = "submitted"
        /\ info' = [status |-> "in_progress", batch_id |-> requests[r].batch,
                    retry_count |-> 0]
        /\ requests' = [requests EXCEPT ![r].pc = "returned"]
        /\ UNCHANGED << filter, stores, last, parquet, batches, poller, unscored >>

\* the Batches API finishes a batch
BatchEnds ==
    \E b \in Processing :
        /\ batches' = [batches EXCEPT ![b].state = "ended"]
        /\ UNCHANGED << filter, stores, last, parquet, info, requests, poller, unscored >>

\* _poll_all_batches_inner, the read: a report that is not in_progress is
\* passed over
PollRead ==
    /\ poller.pc = "idle"
    /\ info.status = "in_progress"
    /\ poller' = [poller EXCEPT !.pc = "read", !.cb = info]
    /\ UNCHANGED << filter, stores, last, parquet, info, batches, requests, unscored >>

\* check_batch_status: a batch still processing is passed over
PollStatus ==
    /\ poller.pc = "read"
    /\ poller' = [poller EXCEPT !.pc = IF batches[poller.cb.batch_id].state = "ended"
                                       THEN "ended" ELSE "idle"]
    /\ UNCHANGED << filter, stores, last, parquet, info, batches, requests, unscored >>

\* a faulty variant of the decision: unscored comments are resubmitted
\* whatever the retry_count
DecidedRetriesAgain(cb, left, resubmitted, new_batch_id) ==
    IF left
    THEN IF resubmitted
         THEN [status |-> "in_progress", batch_id |-> new_batch_id,
               retry_count |-> cb.retry_count + 1]
         ELSE [cb EXCEPT !.status = "partial_failure"]
    ELSE [cb EXCEPT !.status = "ended"]

\* the block the poll decides on once the results are applied
Decided(cb, left, resubmitted, new_batch_id) ==
    IF left /\ cb.retry_count = 0
    THEN IF resubmitted
         THEN [status |-> "in_progress", batch_id |-> new_batch_id, retry_count |-> 1]
         ELSE [cb EXCEPT !.status = "partial_failure"]
    ELSE IF left /\ cb.retry_count >= 1
    THEN [cb EXCEPT !.status = "partial_failure"]
    ELSE [cb EXCEPT !.status = "ended"]

\* fetch_and_apply_results, the parquet read again, and the decision: some
\* comments may be left unscored; with retry_count 0 they are resubmitted,
\* and submit_batch may raise
PollApply ==
    \E left \in { FALSE, unscored }, ok \in BOOLEAN :
        LET retry == left /\ poller.cb.retry_count = 0 /\ ok
        IN  /\ poller.pc = "ended"
            /\ retry => Len(batches) < MaxBatches
            /\ unscored' = left
            /\ batches' = IF retry THEN Submitted("poller") ELSE batches
            /\ poller' = [poller EXCEPT
                            !.pc = "decided",
                            !.new = Decided(poller.cb, left, ok, Len(batches) + 1)]
            /\ UNCHANGED << filter, stores, last, parquet, info, requests >>

\* the decided block is written under the lock
PollWrite ==
    /\ poller.pc = "decided"
    /\ info' = poller.new
    /\ poller' = PollerIdle
    /\ UNCHANGED << filter, stores, last, parquet, batches, requests, unscored >>

\* check_batch_status or fetch_and_apply_results raises: the handler marks an
\* in_progress block as error
PollRaise ==
    /\ poller.pc \in { "read", "ended" }
    /\ info' = IF info.status = "in_progress" THEN [info EXCEPT !.status = "error"] ELSE info
    /\ poller' = PollerIdle
    /\ UNCHANGED << filter, stores, last, parquet, batches, requests, unscored >>

InitScoring ==
    /\ InitCall({ <<>> }, { DefaultConfig }, { {} }, { Env(TRUE, TRUE, TRUE) })
    /\ NoJob
    /\ NoOther
    /\ stores = [n \in StoreNames |-> NewStore]
    /\ last = NoCall
    /\ parquet = VideoIds
    /\ info = NoBlock
    /\ batches = <<>>
    /\ requests = [r \in RequestIds |-> RequestIdle]
    /\ poller = PollerIdle
    /\ unscored = TRUE

NextSubmit ==
    \/ SubmitCheck
    \/ SubmitBatch
    \/ SubmitWrite
    \/ BatchEnds
    \/ PollRead
    \/ PollStatus
    \/ PollApply
    \/ PollWrite

\* the submit requests and the poller, the API calls of the poller answering
SpecSubmit == InitScoring /\ [][NextSubmit]_vars

NextPoller == NextSubmit \/ PollRaise

\* the same, the API calls of the poller answering or raising
SpecPoller == InitScoring /\ [][NextPoller]_vars

\* C26 (as the specification states it): a submit request that finds the
\* block in_progress returns it and submits nothing, and so, however the
\* submit requests and the poller interleave, no batch is submitted while
\* another batch of the report is still running
SubmitIdempotentWhileRunning ==
    /\ [][\A r \in RequestIds :
             (requests'[r] # requests[r] /\ requests'[r].pc \in { "checked", "returned" }
              /\ requests[r].pc # "checked" /\ requests[r].pc # "submitted"
              /\ info.status = "in_progress")
                 => (requests'[r].pc = "returned" /\ batches' = batches)]_vars
    /\ [](Cardinality(Processing) <= 1)

\* what holds of a request: when it reads a block that is in_progress it
\* returns that block and submits no batch
InProgressReturnsExisting ==
    [][\A r \in RequestIds :
          (requests'[r] # requests[r] /\ requests'[r].pc \in { "checked", "returned" }
           /\ requests[r].pc # "checked" /\ requests[r].pc # "submitted"
           /\ info.status = "in_progress")
              => (requests'[r].pc = "returned" /\ requests'[r].existing = info
                  /\ batches' = batches /\ info' = info)]_vars

\* a step of the poller
PollStep == poller' # poller

BatchesBy(by) == { b \in 1..Len(batches) : batches[b].by = by }

\* C29 (as the specification states it): a poll changes only a block that is
\* in_progress; once the batch has ended the block becomes ended,
\* in_progress with retry_count 1, or partial_failure; retry_count never
\* exceeds 1
PollOutcomesAsStated ==
    /\ [](info.retry_count <= 1)
    /\ [][(PollStep /\ info' # info) => info.status = "in_progress"]_vars
    /\ [][(PollStep /\ poller.pc \in { "ended", "decided" } /\ poller'.pc = "idle") =>
             info'.status \in { "ended", "in_progress", "partial_failure" }]_vars

\* C29 (amended): a poll changes only a block that is in_progress.  Once the
\* batch has ended and its results are applied the block becomes ended if no
\* comment is left unscored, a new in_progress batch with retry_count 1 if
\* comments are left and retry_count was 0, and partial_failure if comments
\* are left and retry_count was 1 or the resubmission failed; when checking
\* the batch or fetching its results raises, the block becomes error.  The
\* poller resubmits at most once per submission by a request, and
\* retry_count never exceeds 1
PollerStateMachine ==
    /\ [](info.retry_count <= 1)
    /\ [](Cardinality(BatchesBy("poller")) <= Cardinality(BatchesBy("submit")))
    /\ [][(PollStep /\ info' # info) => info.status = "in_progress"]_vars
    /\ [][(PollStep /\ poller.pc = "ended" /\ poller'.pc = "decided") =>
             LET cb == poller.cb
                 new == poller'.new
             IN  /\ cb.status = "in_progress"
                 /\ IF ~unscored'
                    THEN new = [cb EXCEPT !.status = "ended"] /\ batches' = batches
                    ELSE IF cb.retry_count = 0
                    THEN \/ /\ new = [status |-> "in_progress",
                                      batch_id |-> Len(batches'), retry_count |-> 1]
                            /\ batches' = Append(batches, [state |-> "processing",
                                                           by |-> "poller"])
                         \/ /\ new = [cb EXCEPT !.status = "partial_failure"]
                            /\ batches' = batches
                    ELSE /\ new = [cb EXCEPT !.status = "partial_failure"]
                         /\ batches' = batches]_vars
    /\ [][(PollStep /\ poller.pc = "decided") => info' = poller.new]_vars
    /\ [][(PollStep /\ poller.pc \in { "read", "ended" } /\ info' # info) =>
             info' = [info EXCEPT !.status = "error"]]_vars

\* C29 happens: the poller has resubmitted once, the second batch has ended
\* with comments still unscored, and the block is partial_failure with
\* retry_count 1
RetriedOnceThenPartialFailure ==
    /\ info.status = "partial_failure"
    /\ info.retry_count = 1
    /\ unscored
    /\ poller.pc = "idle"
    /\ Cardinality(BatchesBy("poller")) = 1
    /\ batches[info.batch_id].by = "poller"
    /\ Processing = {}

(***************************************************************************)
(* The analysis job after its keyword arguments are built: the try block   *)
(* of _run_analysis_inner, its handler and its finally, and the cleanup of *)
(* the registry that api_analyze runs.                                     *)
(***************************************************************************)
\* the most progress messages of a job
MaxProgress == 2

\* what the job's thread leaves alone
besideJob ==
    << input, cfg, blacklist_texts, env, pc, df, reasons, ret, prev, calls, warned,
       raw_settings, filter_kwargs, other, dashboard >>

\* _send(q, {"msg": ...}) of on_progress and of the steps of the try block
JobProgress ==
    /\ job = "built"
    /\ Len(queue) < MaxProgress
    /\ queue' = Append(queue, "msg")
    /\ UNCHANGED << job, registry, besideJob >>

\* the end of the try block: status, report_path and finished_at are set
\* under _jobs_lock
JobFinish ==
    /\ job = "built"
    /\ registry' = [registry EXCEPT !.status = "done", !.report_path = "report",
                                    !.finished_at = TRUE]
    /\ job' = "finished"
    /\ UNCHANGED << queue, besideJob >>

\* _send(q, {"done": True, ...})
JobSendDone ==
    /\ job = "finished"
    /\ queue' = Append(queue, "done")
    /\ job' = "sent"
    /\ UNCHANGED << registry, besideJob >>

\* a statement of the try block raises: the handler sets status and
\* finished_at under _jobs_lock
JobExcept ==
    /\ job = "built"
    /\ registry' = [registry EXCEPT !.status = "error", !.finished_at = TRUE]
    /\ job' = "failed"
    /\ UNCHANGED << queue, besideJob >>

\* _send(q, {"error": str(exc)})
JobSendError ==
    /\ job = "failed"
    /\ queue' = Append(queue, "error")
    /\ job' = "sent"
    /\ UNCHANGED << registry, besideJob >>

\* finally: q.put(None); the thread is over
JobSentinel ==
    /\ job = "sent"
    /\ queue' = Append(queue, "None")
    /\ job' = "over"
    /\ UNCHANGED << registry, besideJob >>

\* _cleanup_stale_jobs, run by a later api_analyze: the job is deleted when
\* it has a finished_at that is more than _JOB_TTL old
CleanupStaleJobs ==
    /\ registry.present
    /\ \E aged \in BOOLEAN :
          registry' = IF registry.finished_at /\ aged THEN NoEntry ELSE registry
    /\ UNCHANGED << job, queue, besideJob >>

NextJob ==
    \/ Submit
    \/ BuildKwargs
    \/ JobProgress
    \/ JobFinish
    \/ JobSendDone
    \/ JobExcept
    \/ JobSendError
    \/ JobSentinel
    \/ CleanupStaleJobs

SpecJob == InitSettings /\ [][NextJob]_vars

\* the None sentinels on the job's queue
Sentinels == { i \in 1..Len(queue) : queue[i] = "None" }

\* the thread of the job has ended
ThreadOver == job \in { "crashed", "over" }

\* the registry's entry of the job, while it has one, says how it ended
EndRecorded ==
    registry.present =>
        /\ registry.status \in { "done", "error" }
        /\ registry.finished_at
        /\ registry.status = "done" => registry.report_path # "none"

\* C28 (as the specification states it): every started job ends its progress
\* stream: when its thread is over there is exactly one None on its queue,
\* the last item put; the status is done (with report_path) or error, with
\* finished_at, before the sentinel; a job with no finished_at is not removed
StreamAlwaysTerminated ==
    /\ ThreadOver => Sentinels = { Len(queue) } /\ Len(queue) >= 1
    /\ Sentinels \subseteq { Len(queue) }
    /\ (Sentinels # {} \/ job = "sent") => EndRecorded
    /\ (job # "none" /\ ~registry.present) => job \in { "finished", "failed", "sent", "over" }

\* the same of the jobs whose keyword arguments were built
StreamTerminatedWhenBuilt ==
    /\ job = "over" => Sentinels = { Len(queue) } /\ Len(queue) >= 1
    /\ Sentinels \subseteq { Len(queue) }
    /\ (Sentinels # {} \/ job = "sent") => EndRecorded
    /\ (job # "none" /\ ~registry.present) => job \in { "finished", "failed", "sent", "over" }

\* a job is removed from the registry only when it has a finished_at
RemovedOnlyWhenFinished ==
    [][(registry.present /\ ~registry'.present) => registry.finished_at]_vars

(***************************************************************************)
(* The order of the input rows and their like counts.                     *)
(***************************************************************************)
\* the orders of n rows
Orders(n) == { p \in [1..n -> 1..n] : \A i, j \in 1..n : p[i] = p[j] => i = j }

\* the rows of the frame in the order p
Reorder(frame, p) == [i \in 1..Len(frame) |-> frame[p[i]]]

\* the like counts tried for n rows: all equal, rising, falling
LikeProfiles(n) ==
    { [i \in 1..n |-> 0], [i \in 1..n |-> i], [i \in 1..n |-> n - i] }

\* the rows of the frame with the like counts given
Relike(frame, likes) ==
    [i \in 1..Len(frame) |-> [frame[i] EXCEPT !.like_count = likes[i]]]

\* what the call under way has given its caller
Given == IF pc = "raised" THEN Raised ELSE ret[1]

\* two outcomes with the same retained ids and the same reason map
SameOutcome(a, b) ==
    /\ a.raised = b.raised
    /\ Ids(a.retained) = Ids(b.retained)
    /\ a.reasons = b.reasons

\* C30: the ids of the input being unique, the call on the same rows in any
\* other order, with other like counts, has the same set of retained ids and
\* the same reason map (and fails when this one fails)
OrderIndependence ==
    (pc \in { "done", "raised" }) =>
        \A p \in Orders(Len(input)) :
            \A likes \in LikeProfiles(Len(input)) :
                SameOutcome(Given,
                            FilterLowValue(Relike(Reorder(input, p), likes), cfg,
                                           blacklist_texts, env))

\* three rows with different like counts, the first and the second alike only
\* through the third: the near-duplicate pass has removed all three
ChainRemovedWhole ==
    /\ pc = "done"
    /\ env.rapidfuzz /\ "dedup" \in cfg.gates /\ cfg.dedup_threshold = 50
    /\ Len(input) = 3
    /\ input[1].text = T_aa /\ input[2].text = T_bb /\ input[3].text = T_ab
    /\ Cardinality({ input[i].like_count : i \in 1..3 }) = 3
    /\ ret[1].retained = <<>>
    /\ \A i \in 1..3 : ReasonOf(input[i].id) = "Duplicate"

====
